---------------------------- MODULE Spec2Model ----------------------------
(***************************************************************************)
(* Streamora backend: the content-resolution and caching layer.            *)
(*                                                                         *)
(*   SpecTmdbCache  TMDBService.getCachedOrFetch (services/tmdbService)    *)
(*   SpecRadio      RadioBrowserService cached operations (node-cache)     *)
(*   SpecContent    GET /api/content/:type/:id (routes/content.js)         *)
(*   SpecSearch     GET /api/search (routes/search.js)                     *)
(*                                                                         *)
(* Time is Date.now() in milliseconds.  Each specification lets the clock  *)
(* jump between the instants around the multiples of the period that       *)
(* matters to it, so that "one millisecond before / exactly at / one       *)
(* millisecond after" expiry all occur.                                    *)
(***************************************************************************)
EXTENDS Integers, Sequences, FiniteSets, TLC

VARIABLES
    now,          \* Date.now()
    tmdbCache,    \* TMDBService.cache: Map cacheKey -> {data, timestamp}
    tmdbCall,     \* in-flight getCachedOrFetch calls, one per caller
    radioCache,   \* radioBrowserService: the module's NodeCache, key -> {v, t}
    rateLimiter,  \* radioBrowserService: the module's rateLimiter object
    radioCall,    \* in-flight RadioBrowserService operations, one per caller
    radioLast,    \* history: the value last cache.set for a key since a flush
    radioCalls,   \* history: how many adapter calls were begun
    store,        \* the Content collection: a set of documents
    watchHistory, \* the identified user's persisted watchHistory array
    req,          \* in-flight GET /:type/:id requests, one per client
    stations,     \* the RadioStation collection, as matched by the text query
    search,       \* the last GET /api/search request and its response
    apiKey,       \* TMDBService.apiKey (process.env.TMDB_API_KEY)
    http,         \* in-flight TMDBService.makeRequest calls, one per caller
    dispatch,     \* the request travelling through the content router
    userLists,    \* the user's persisted favorites and watchlist, with __v
    userReq,      \* in-flight requests on the user's lists, one per client
    userOps,      \* history: how many such requests were begun
    sockets,      \* socket.io: each socket's connection and the rooms it is in
    lastEvent     \* history: the event last emitted and the sockets it reached

tmdbVars  == <<tmdbCache, tmdbCall>>
radioVars == <<radioCache, rateLimiter, radioCall, radioLast, radioCalls>>

contentVars == <<store, watchHistory, req>>

searchVars == <<stations, search>>

httpVars == <<apiKey, http>>

userVars == <<userLists, userReq, userOps>>

socketVars == <<sockets, lastEvent>>

serverVars == <<dispatch, userVars, socketVars>>

vars == <<now, tmdbVars, radioVars, contentVars, searchVars, httpVars, serverVars>>

-----------------------------------------------------------------------------
(* Bounds *)

MaxPeriods == 1      \* the clock runs up to MaxPeriods periods (+1 ms)
MaxRadioCalls == 3   \* radio-directory adapter calls begun in one run
MaxViews == 1        \* no new request once a document has this many views
MaxPage == 2         \* the search's page parameter ranges over 1..MaxPage
MaxLimit == 2        \* the search's limit parameter ranges over 1..MaxLimit
TmdbPageSize == 3    \* results per page of TMDB's /search/multi

\* The instants the clock may take for a period P: 0, and P*k-1, P*k, P*k+1.
Instants(P) ==
    {0, 1} \cup { k * P + d : k \in 1..MaxPeriods, d \in {-1, 0, 1} }

-----------------------------------------------------------------------------
(* TMDBService: the in-memory cache (part_005 lines 369-396)               *)

cacheTimeout == 5 * 60 * 1000

CacheKeys == {"search_ab_1_false", "popular_movies_1"}
Payloads  == {"payloadA", "payloadB"}
Callers   == {"c1", "c2"}         \* two concurrent callers

NoEntry == [none |-> TRUE]          \* Map.get of an absent key: undefined
NoCall  == [pc |-> "idle"]

\* this.cache.set(cacheKey, { data, timestamp: Date.now() })
CacheEntry(data, t) == [data |-> data, timestamp |-> t]

\* A mutant: an entry exactly cacheTimeout old still counts as fresh.
isFreshStale(cached, t) ==
    cached # NoEntry /\ t - cached.timestamp <= cacheTimeout

\* cached && Date.now() - cached.timestamp < this.cacheTimeout
isFresh(cached, t) ==
    cached # NoEntry /\ t - cached.timestamp < cacheTimeout

\* getCachedOrFetch up to its first await: read the Map, return a fresh
\* entry's data, otherwise start fetchFunction.
GetCachedOrFetchBegin(c, key) ==
    /\ tmdbCall[c].pc = "idle"
    /\ LET cached == tmdbCache[key] IN
         tmdbCall' = [tmdbCall EXCEPT ![c] =
            IF isFresh(cached, now)
            THEN [pc |-> "return_cached", key |-> key, cached |-> cached,
                  result |-> cached.data]
            ELSE [pc |-> "await_fetch", key |-> key, cached |-> cached]]
    /\ UNCHANGED <<now, tmdbCache, radioVars, contentVars, searchVars, httpVars, serverVars>>

\* A mutant: a resolved fetch leaves alone an entry that another call stored
\* while it was waiting (first write wins).
FetchResolvedKeepsFirst(c, data) ==
    /\ tmdbCall[c].pc = "await_fetch"
    /\ tmdbCache' = [tmdbCache EXCEPT ![tmdbCall[c].key] =
            IF tmdbCache[tmdbCall[c].key] # tmdbCall[c].cached
            THEN tmdbCache[tmdbCall[c].key] ELSE CacheEntry(data, now)]
    /\ tmdbCall' = [tmdbCall EXCEPT ![c] =
            [pc |-> "return_data", key |-> tmdbCall[c].key,
             cached |-> tmdbCall[c].cached, result |-> data]]
    /\ UNCHANGED <<now, radioVars, contentVars, searchVars, httpVars, serverVars>>

\* fetchFunction resolved: store {data, timestamp: now} and return data.
FetchResolved(c, data) ==
    /\ tmdbCall[c].pc = "await_fetch"
    /\ tmdbCache' = [tmdbCache EXCEPT ![tmdbCall[c].key] = CacheEntry(data, now)]
    /\ tmdbCall' = [tmdbCall EXCEPT ![c] =
            [pc |-> "return_data", key |-> tmdbCall[c].key,
             cached |-> tmdbCall[c].cached, result |-> data]]
    /\ UNCHANGED <<now, radioVars, contentVars, searchVars, httpVars, serverVars>>

\* A mutant: the catch block rethrows without looking at `cached`.
FetchRejectedNoFallback(c) ==
    /\ tmdbCall[c].pc = "await_fetch"
    /\ tmdbCall' = [tmdbCall EXCEPT ![c] =
            [pc |-> "throw", key |-> tmdbCall[c].key,
             cached |-> tmdbCall[c].cached]]
    /\ UNCHANGED <<now, tmdbCache, radioVars, contentVars, searchVars, httpVars, serverVars>>

\* fetchFunction rejected: the catch block returns the entry read at the
\* start of the call, expired or not, and rethrows only without one.
FetchRejected(c) ==
    /\ tmdbCall[c].pc = "await_fetch"
    /\ tmdbCall' = [tmdbCall EXCEPT ![c] =
            IF tmdbCall[c].cached # NoEntry
            THEN [pc |-> "return_expired", key |-> tmdbCall[c].key,
                  cached |-> tmdbCall[c].cached,
                  result |-> tmdbCall[c].cached.data]
            ELSE [pc |-> "throw", key |-> tmdbCall[c].key,
                  cached |-> tmdbCall[c].cached]]
    /\ UNCHANGED <<now, tmdbCache, radioVars, contentVars, searchVars, httpVars, serverVars>>

\* The operations that call makeRequest directly, without getCachedOrFetch:
\* getTopRatedTVShows, getUpcomingMovies, getNowPlayingMovies,
\* getMovieDetails, getTVShowDetails (lines 510-537) and those after them.
DirectOps == {"getTopRatedTVShows", "getMovieDetails"}

\* Such an operation up to its await of makeRequest.
DirectBegin(c, op) ==
    /\ tmdbCall[c].pc = "idle"
    /\ tmdbCall' = [tmdbCall EXCEPT ![c] = [pc |-> "await_request", op |-> op]]
    /\ UNCHANGED <<now, tmdbCache, radioVars, contentVars, searchVars, httpVars, serverVars>>

\* makeRequest resolved with response.data: the operation returns it.
DirectResolved(c, data) ==
    /\ tmdbCall[c].pc = "await_request"
    /\ tmdbCall' = [tmdbCall EXCEPT ![c] =
            [pc |-> "return_data", op |-> tmdbCall[c].op, result |-> data]]
    /\ UNCHANGED <<now, tmdbCache, radioVars, contentVars, searchVars, httpVars, serverVars>>

\* makeRequest threw: the operation throws.
DirectRejected(c) ==
    /\ tmdbCall[c].pc = "await_request"
    /\ tmdbCall' = [tmdbCall EXCEPT ![c] = [pc |-> "throw", op |-> tmdbCall[c].op]]
    /\ UNCHANGED <<now, tmdbCache, radioVars, contentVars, searchVars, httpVars, serverVars>>

\* The caller has consumed the outcome; the caller may call again.
CallDone(c) ==
    /\ tmdbCall[c].pc \in {"return_cached", "return_data", "return_expired", "throw"}
    /\ tmdbCall' = [tmdbCall EXCEPT ![c] = NoCall]
    /\ UNCHANGED <<now, tmdbCache, radioVars, contentVars, searchVars, httpVars, serverVars>>

TickCache ==
    /\ \E t \in Instants(cacheTimeout) : t > now /\ now' = t
    /\ UNCHANGED <<tmdbVars, radioVars, contentVars, searchVars, httpVars, serverVars>>

-----------------------------------------------------------------------------
(* RadioBrowserService: NodeCache({ stdTTL: 300 }) and the rate limiter    *)
(* (part_005 lines 1-345).  Every cached operation has the same shape:     *)
(*   try { checkRateLimit(); cached = cache.get(key); if (cached) return   *)
(*         cached; v = await radioBrowser...; cache.set(key, v); return v } *)
(*   catch (error) { throw new Error('Failed to ...') }                    *)

stdTTL        == 300          \* seconds
longTTL       == 3600         \* seconds: cache.set(cacheKey, ..., 3600)
maxRequests   == 100
resetInterval == 60000        \* milliseconds

RadioKeys == {"popular_stations_50", "countries", "popular_stations_1"}

\* The ttl, in seconds, each operation passes to cache.set (none: stdTTL).
ttlOf(key) == IF key = "countries" THEN longTTL ELSE stdTTL

\* node-cache keeps {v, t} with t = Date.now() + ttl * 1000.
RadioEntry(v, t, ttl) == [v |-> v, t |-> t + ttl * 1000]

\* node-cache _check: an entry is expired once t < Date.now().
radioExpired(entry, t) == entry # NoEntry /\ entry.t < t

\* cache.get(key): undefined for an absent or an expired key.
cacheGet(cache, key, t) ==
    IF cache[key] = NoEntry \/ radioExpired(cache[key], t)
    THEN NoEntry ELSE cache[key]

\* cache.get(key) deletes the key it finds expired (deleteOnExpire).
cacheAfterGet(cache, key, t) ==
    IF radioExpired(cache[key], t) THEN [cache EXCEPT ![key] = NoEntry]
    ELSE cache

\* checkRateLimit(): the limiter after the call, or "exceeded" when it throws.
limiterReset(rl, t) ==
    IF t - rl.lastReset > resetInterval
    THEN [requests |-> 0, lastReset |-> t] ELSE rl

rateLimitExceeded(rl, t) == limiterReset(rl, t).requests >= maxRequests

limiterAfter(rl, t) ==
    LET r == limiterReset(rl, t) IN
    IF r.requests >= maxRequests THEN r
    ELSE [r EXCEPT !.requests = r.requests + 1]

\* A cached operation up to its await: rate limit, then the cache.
RadioBegin(c, key) ==
    /\ radioCall[c].pc = "idle"
    /\ radioCalls < MaxRadioCalls
    /\ radioCalls' = radioCalls + 1
    /\ rateLimiter' = limiterAfter(rateLimiter, now)
    /\ IF rateLimitExceeded(rateLimiter, now)
       THEN /\ radioCall' = [radioCall EXCEPT ![c] =
                    [pc |-> "throw", key |-> key, why |-> "rate_limit"]]
            /\ UNCHANGED radioCache
       ELSE /\ radioCache' = cacheAfterGet(radioCache, key, now)
            /\ radioCall' = [radioCall EXCEPT ![c] =
                    IF cacheGet(radioCache, key, now) # NoEntry
                    THEN [pc |-> "return_cached", key |-> key,
                          result |-> cacheGet(radioCache, key, now).v]
                    ELSE [pc |-> "await_upstream", key |-> key,
                          prev |-> radioLast[key]]]
    /\ UNCHANGED <<now, tmdbVars, radioLast, contentVars, searchVars, httpVars, serverVars>>

\* The directory answered: cache.set(key, v[, 3600]) and return v.
RadioResolved(c, v) ==
    /\ radioCall[c].pc = "await_upstream"
    /\ radioCache' = [radioCache EXCEPT ![radioCall[c].key] =
                        RadioEntry(v, now, ttlOf(radioCall[c].key))]
    /\ radioLast' = [radioLast EXCEPT ![radioCall[c].key] = v]
    /\ radioCall' = [radioCall EXCEPT ![c] =
            [pc |-> "return_data", key |-> radioCall[c].key, result |-> v]]
    /\ UNCHANGED <<now, tmdbVars, rateLimiter, radioCalls, contentVars, searchVars, httpVars, serverVars>>

\* The directory call failed: the catch block throws 'Failed to fetch ...'.
RadioRejected(c) ==
    /\ radioCall[c].pc = "await_upstream"
    /\ radioCall' = [radioCall EXCEPT ![c] =
            [pc |-> "throw", key |-> radioCall[c].key, why |-> "upstream",
             prev |-> radioCall[c].prev]]
    /\ UNCHANGED <<now, tmdbVars, radioCache, rateLimiter, radioLast, radioCalls, contentVars, searchVars, httpVars, serverVars>>

RadioDone(c) ==
    /\ radioCall[c].pc \in {"return_cached", "return_data", "throw"}
    /\ radioCall' = [radioCall EXCEPT ![c] = NoCall]
    /\ UNCHANGED <<now, tmdbVars, radioCache, rateLimiter, radioLast, radioCalls, contentVars, searchVars, httpVars, serverVars>>

\* node-cache's periodic _checkData deletes the keys that have expired.
CheckData ==
    /\ \E k \in RadioKeys : radioExpired(radioCache[k], now)
    /\ radioCache' = [k \in RadioKeys |->
            IF radioExpired(radioCache[k], now) THEN NoEntry ELSE radioCache[k]]
    /\ UNCHANGED <<now, tmdbVars, rateLimiter, radioCall, radioLast, radioCalls, contentVars, searchVars, httpVars, serverVars>>

\* clearCache(): cache.flushAll().
clearCache ==
    /\ radioCache' = [k \in RadioKeys |-> NoEntry]
    /\ radioLast' = [k \in RadioKeys |-> "none"]
    /\ \E k \in RadioKeys : radioCache[k] # NoEntry
    /\ UNCHANGED <<now, tmdbVars, rateLimiter, radioCall, radioCalls, contentVars, searchVars, httpVars, serverVars>>

\* cache.keys().length: the keys the cache holds, those that have expired but
\* were not deleted yet included.
cacheKeys(cache) == Cardinality({k \in RadioKeys : cache[k] # NoEntry})

\* The key of getPopularStations(1, 0), the read of the health route.
HealthKey == "popular_stations_1"

\* The answer of GET /radio/health (content.js lines 720-735).  cacheSize is
\* radioBrowserService.cache?.size || 0: the exported object is a
\* RadioBrowserService instance and `cache` is a const of its module, not a
\* property of it, so the expression is 0.
healthAnswer(status) ==
    [pc |-> "health_responded", status |-> status, cacheSize |-> 0]

\* GET /radio/health up to the await inside getPopularStations(1, 0): the
\* rate limit, then the cache; a hit is answered at once, a rate-limit error
\* goes to the route's catch (503).
HealthRequest(c) ==
    /\ radioCall[c].pc = "idle"
    /\ radioCalls < MaxRadioCalls
    /\ radioCalls' = radioCalls + 1
    /\ rateLimiter' = limiterAfter(rateLimiter, now)
    /\ IF rateLimitExceeded(rateLimiter, now)
       THEN /\ radioCall' = [radioCall EXCEPT ![c] = healthAnswer(503)]
            /\ UNCHANGED radioCache
       ELSE /\ radioCache' = cacheAfterGet(radioCache, HealthKey, now)
            /\ radioCall' = [radioCall EXCEPT ![c] =
                    IF cacheGet(radioCache, HealthKey, now) # NoEntry
                    THEN healthAnswer(200)
                    ELSE [pc |-> "health_await_upstream"]]
    /\ UNCHANGED <<now, tmdbVars, radioLast, contentVars, searchVars, httpVars, serverVars>>

\* The directory answered the health route's read: cache.set, then res.json.
HealthUpstreamResolved(c, v) ==
    /\ radioCall[c].pc = "health_await_upstream"
    /\ radioCache' = [radioCache EXCEPT ![HealthKey] =
                        RadioEntry(v, now, ttlOf(HealthKey))]
    /\ radioLast' = [radioLast EXCEPT ![HealthKey] = v]
    /\ radioCall' = [radioCall EXCEPT ![c] = healthAnswer(200)]
    /\ UNCHANGED <<now, tmdbVars, rateLimiter, radioCalls, contentVars, searchVars, httpVars, serverVars>>

\* The directory call of the health route's read failed: 503.
HealthUpstreamRejected(c) ==
    /\ radioCall[c].pc = "health_await_upstream"
    /\ radioCall' = [radioCall EXCEPT ![c] = healthAnswer(503)]
    /\ UNCHANGED <<now, tmdbVars, radioCache, rateLimiter, radioLast, radioCalls, contentVars, searchVars, httpVars, serverVars>>

\* radioBrowserService.healthCheck() up to its await of getServerStats().
healthCheckBegin(c) ==
    /\ radioCall[c].pc = "idle"
    /\ radioCall' = [radioCall EXCEPT ![c] = [pc |-> "healthCheck_await"]]
    /\ UNCHANGED <<now, tmdbVars, radioCache, rateLimiter, radioLast, radioCalls, contentVars, searchVars, httpVars, serverVars>>

\* getServerStats() settled: healthCheck returns its status with
\* cacheKeys: cache.keys().length, from the try block or from the catch.
healthCheckReturns(c, healthy) ==
    /\ radioCall[c].pc = "healthCheck_await"
    /\ radioCall' = [radioCall EXCEPT ![c] =
            [pc |-> "healthCheck_returned", healthy |-> healthy,
             cacheKeys |-> cacheKeys(radioCache)]]
    /\ UNCHANGED <<now, tmdbVars, radioCache, rateLimiter, radioLast, radioCalls, contentVars, searchVars, httpVars, serverVars>>

HealthDone(c) ==
    /\ radioCall[c].pc \in {"health_responded", "healthCheck_returned"}
    /\ radioCall' = [radioCall EXCEPT ![c] = NoCall]
    /\ UNCHANGED <<now, tmdbVars, radioCache, rateLimiter, radioLast, radioCalls, contentVars, searchVars, httpVars, serverVars>>

\* The instants of the radio clock: each period that matters, exactly at it
\* and one millisecond later (expiry and reset both compare with a strict <).
RadioInstants ==
    {0, 1} \cup { P + d : P \in {resetInterval, stdTTL * 1000, longTTL * 1000},
                          d \in {0, 1} }

TickRadio ==
    /\ \E t \in RadioInstants : t > now /\ now' = t
    /\ UNCHANGED <<tmdbVars, radioVars, contentVars, searchVars, httpVars, serverVars>>

-----------------------------------------------------------------------------
(* GET /:type/:id, the content-details handler (routes/content.js lines    *)
(* 405-509), with the Content model (part_006) and the user's              *)
(* addToWatchHistory (part_007).  A request advances from one await to the *)
(* next; requests of different clients interleave at the awaits.           *)

expiryPeriod == 24 * 60 * 60 * 1000     \* contentSchema.cacheExpiry default

Clients      == {"r1", "r2"}
ContentTypes == {"movie", "tv", "podcast"}     \* req.params.type
ContentIds   == {"550"}                        \* req.params.id
null         == [none |-> TRUE]

\* What TMDB answers for /movie/:id or /tv/:id, as transformMovieData and
\* transformTVData keep it: the title and the number of YouTube trailers.
TmdbDetails == { [title |-> "title1", trailers |-> 0],
                 [title |-> "title2", trailers |-> 1] }

\* What the YouTube search does for searchMovieTrailer / searchTVTrailer: it
\* fails (the service then returns []) or finds a number of items.
YoutubeResults == { [ok |-> FALSE, items |-> 0], [ok |-> TRUE, items |-> 0],
                    [ok |-> TRUE, items |-> 5] }

\* A mutant: a document counts as expired at the very instant of its expiry.
needsUpdateAtExpiry(doc, t) == doc.cacheExpiry <= t

\* contentSchema.methods.needsUpdate: this.cacheExpiry < new Date()
needsUpdate(doc, t) == doc.cacheExpiry < t

\* Content.findOne({ tmdbId: id, type })
findOne(docs, id, type) ==
    IF \E d \in docs : d.tmdbId = id /\ d.type = type
    THEN CHOOSE d \in docs : d.tmdbId = id /\ d.type = type
    ELSE null

\* findOneAndUpdate on a matching document: $set of the fields the transformed
\* object carries (title, trailers, ...); views and cacheExpiry are not among
\* them and keep their stored values.
updatedDoc(d, content, t) ==
    [d EXCEPT !.title = content.title, !.trailers = content.trailers]

\* findOneAndUpdate with upsert and setDefaultsOnInsert on no match: the new
\* document has the schema defaults views 0 and cacheExpiry now + 24 h.
insertedDoc(docs, id, type, content, t) ==
    [_id |-> Cardinality(docs) + 1, tmdbId |-> id, type |-> type,
     title |-> content.title, trailers |-> content.trailers,
     views |-> 0, cacheExpiry |-> t + expiryPeriod]

\* The unique index on tmdbId (part_006 lines 4-8) rejects the insert (E11000).
duplicateKey(docs, id) == \E d \in docs : d.tmdbId = id

\* A contentId as it arrives.  A route parameter is a string; a JSON body may
\* carry the id as a string or as a number.  The number n is written "#n".
jsonNumberText == ("#1" :> "1") @@ ("#550" :> "550")

\* The schema declares contentId as String: a value stored in a list is cast,
\* String(n) for a number.
castString(v) == IF v \in DOMAIN jsonNumberText THEN jsonNumberText[v] ELSE v

\* userSchema.methods.addToWatchHistory on a loaded user: drop the entry with
\* this contentId, put the new entry first, keep the first 100.
filterOut(hist, contentId) ==
    SelectSeq(hist, LAMBDA item : item.contentId # contentId)

addToWatchHistory(hist, entry) ==
    LET h == <<[entry EXCEPT !.contentId = castString(@)]>>
                \o filterOut(hist, entry.contentId) IN
    IF Len(h) > 100 THEN SubSeq(h, 1, 100) ELSE h

viewsOf(docs, id, type) ==
    IF findOne(docs, id, type) = null THEN 0 ELSE findOne(docs, id, type).views

Idle == [pc |-> "idle"]

\* res.json({ success: true, data: content }) or the error handler's answer.
respond(q, status, failedAt) ==
    [q EXCEPT !.pc = "responded", !.status = status, !.failedAt = failedAt]

\* After the view count: the watch-history step for an identified user,
\* otherwise the response.
afterViews(q) ==
    IF q.user THEN [q EXCEPT !.pc = "await_watchHistory"]
    ELSE respond(q, 200, "none")

\* A mutant: the handler without the type validation of lines 409-411.
RequestUnvalidated(r, type, id, user) ==
    /\ req[r].pc = "idle"
    /\ \A d \in store : d.views < MaxViews
    /\ req' = [req EXCEPT ![r] =
                 [pc |-> IF type = "radio" THEN "await_station"
                         ELSE "await_findOne",
                  type |-> type, id |-> id, user |-> user,
                  userHistory |-> IF user THEN watchHistory ELSE <<>>,
                  content |-> null, status |-> 0, failedAt |-> "none",
                  counted |-> 0, clicks |-> 0, lookupFailed |-> FALSE]]
    /\ UNCHANGED <<now, tmdbVars, radioVars, store, watchHistory, searchVars, httpVars, serverVars>>

\* The handler starts: optionalAuth has loaded req.user; the type is validated.
\* (counted is history: by how much this request's writes have raised the
\* stored view counter of its document; clicks is history: how many times
\* this request has called radioBrowserService.clickStation; lookupFailed is
\* history: this request's YouTube trailer lookup failed.)
Request(r, type, id, user) ==
    /\ req[r].pc = "idle"
    /\ \A d \in store : d.views < MaxViews
    /\ LET q == [pc |-> IF type = "radio" THEN "await_station"
                        ELSE "await_findOne",
                 type |-> type, id |-> id, user |-> user,
                 userHistory |-> IF user THEN watchHistory ELSE <<>>,
                 content |-> null, status |-> 0, failedAt |-> "none",
                 counted |-> 0, clicks |-> 0, lookupFailed |-> FALSE] IN
         req' = [req EXCEPT ![r] =
                    IF type \notin {"movie", "tv", "radio"}
                    THEN respond(q, 400, "validation")
                    ELSE q]
    /\ UNCHANGED <<now, tmdbVars, radioVars, store, watchHistory, searchVars, httpVars, serverVars>>

\* Content.findOne resolved.  A fresh document goes on to incrementViews
\* (this.views += 1; this.save()); otherwise TMDB is asked.
FindOneReturns(r) ==
    /\ req[r].pc = "await_findOne"
    /\ LET doc == findOne(store, req[r].id, req[r].type) IN
         req' = [req EXCEPT ![r] =
            IF doc = null \/ needsUpdate(doc, now)
            THEN [@ EXCEPT !.pc = "await_tmdb", !.content = doc]
            ELSE [@ EXCEPT !.pc = "await_save",
                           !.content = [doc EXCEPT !.views = doc.views + 1]]]
    /\ UNCHANGED <<now, tmdbVars, radioVars, store, watchHistory, searchVars, httpVars, serverVars>>

\* The station uuids a radio request may carry, and those the Radio Browser
\* directory knows.
StationIds == {"uuid1", "uuid2"}
RadioDirectory == {"uuid1"}

\* req.params.type and req.params.id of the requests for a radio station;
\* "podcast" is a type the handler rejects.
StationTypes == {"radio", "podcast"}

\* The radio branch, lines 416-424.  The object exported by
\* services/radioBrowserService has no getStationByUuid (its methods are
\* getPopularStations, getStationsByCountry, getStationsByGenre,
\* searchStations, getStationDetails, getStreamUrl, clickStation,
\* getCountries, getGenres, healthCheck and clearCache), so evaluating
\* radioBrowserService.getStationByUuid(id) throws a TypeError, whatever the
\* id.  The outer catch answers 500; the 404 of line 420 and the clickStation
\* call of line 424 are never reached.
StationLookupThrows(r) ==
    /\ req[r].pc = "await_station"
    /\ req' = [req EXCEPT ![r] = respond(@, 500, "station")]
    /\ UNCHANGED <<now, tmdbVars, radioVars, store, watchHistory, searchVars, httpVars, serverVars>>

\* getMovieDetails / getTVShowDetails resolved: content becomes the plain
\* transformed object; YouTube is asked only when it has no trailers.
TmdbResolved(r, details) ==
    /\ req[r].pc = "await_tmdb"
    /\ req' = [req EXCEPT ![r] =
            [@ EXCEPT !.pc = IF details.trailers = 0 THEN "await_youtube"
                             ELSE "await_upsert",
                      !.content = [plain |-> TRUE, tmdbId |-> req[r].id,
                                   type |-> req[r].type, title |-> details.title,
                                   trailers |-> details.trailers]]]
    /\ UNCHANGED <<now, tmdbVars, radioVars, store, watchHistory, searchVars, httpVars, serverVars>>

\* getMovieDetails / getTVShowDetails rejected: the outer catch answers 500.
TmdbRejected(r) ==
    /\ req[r].pc = "await_tmdb"
    /\ req' = [req EXCEPT ![r] = respond(@, 500, "tmdb")]
    /\ UNCHANGED <<now, tmdbVars, radioVars, store, watchHistory, searchVars, httpVars, serverVars>>

\* A mutant: the trailer lookup without the try/catch of lines 441-460 and
\* with a searchMovieTrailer that lets its error out.
YoutubeReturnsUnguarded(r, found) ==
    /\ req[r].pc = "await_youtube"
    /\ req' = [req EXCEPT ![r] =
            IF ~found.ok THEN respond([@ EXCEPT !.lookupFailed = TRUE], 500, "youtube")
            ELSE [@ EXCEPT !.pc = "await_upsert",
                           !.content.trailers =
                               IF found.items > 3 THEN 3 ELSE found.items]]
    /\ UNCHANGED <<now, tmdbVars, radioVars, store, watchHistory, searchVars, httpVars, serverVars>>

\* searchMovieTrailer / searchTVTrailer returned: up to three found trailers
\* replace the empty list.  A failed lookup (found.ok is FALSE) comes back as
\* an empty list (part_004 lines 52-55, 71-74) or is caught at line 458.
YoutubeReturns(r, found) ==
    /\ req[r].pc = "await_youtube"
    /\ req' = [req EXCEPT ![r] =
            [@ EXCEPT !.pc = "await_upsert",
                      !.lookupFailed = ~found.ok,
                      !.content.trailers =
                          IF ~found.ok \/ found.items = 0 THEN 0
                          ELSE IF found.items > 3 THEN 3 ELSE found.items]]
    /\ UNCHANGED <<now, tmdbVars, radioVars, store, watchHistory, searchVars, httpVars, serverVars>>

\* A mutant: the fetched object is saved as a new document without looking
\* for a stored one (and without the unique index).
UpsertInsertsAlways(r) ==
    /\ req[r].pc = "await_upsert"
    /\ store' = store \cup
            {insertedDoc(store, req[r].id, req[r].type, req[r].content, now)}
    /\ req' = [req EXCEPT ![r] = afterViews(@)]
    /\ UNCHANGED <<now, tmdbVars, radioVars, watchHistory, searchVars, httpVars, serverVars>>

\* Content.findOneAndUpdate({ tmdbId, type }, sanitizedContent, { upsert }).
\* content is a plain object here, so content.incrementViews is undefined and
\* the view count is skipped.
Upsert(r) ==
    /\ req[r].pc = "await_upsert"
    /\ LET doc == findOne(store, req[r].id, req[r].type) IN
         IF doc # null
         THEN /\ store' = (store \ {doc}) \cup {updatedDoc(doc, req[r].content, now)}
              /\ req' = [req EXCEPT ![r] = afterViews(@)]
         ELSE IF duplicateKey(store, req[r].id)
         THEN /\ store' = store
              /\ req' = [req EXCEPT ![r] = respond(@, 500, "upsert")]
         ELSE /\ store' = store \cup
                    {insertedDoc(store, req[r].id, req[r].type, req[r].content, now)}
              /\ req' = [req EXCEPT ![r] = afterViews(@)]
    /\ UNCHANGED <<now, tmdbVars, radioVars, watchHistory, searchVars, httpVars, serverVars>>

\* incrementViews' save() resolved: the loaded document's views, already
\* incremented in memory, is written to the stored document.
SaveReturns(r) ==
    /\ req[r].pc = "await_save"
    /\ store' = { IF d._id = req[r].content._id
                  THEN [d EXCEPT !.views = req[r].content.views] ELSE d : d \in store }
    /\ req' = [req EXCEPT ![r] =
            afterViews([@ EXCEPT !.counted =
                req[r].content.views - viewsOf(store, req[r].id, req[r].type)])]
    /\ UNCHANGED <<now, tmdbVars, radioVars, watchHistory, searchVars, httpVars, serverVars>>

\* req.user.addToWatchHistory(...) resolved: the user's array, as computed on
\* the copy this request loaded, is saved; then res.json.
WatchHistorySaved(r) ==
    /\ req[r].pc = "await_watchHistory"
    /\ watchHistory' = addToWatchHistory(req[r].userHistory,
            [contentId |-> req[r].id, contentType |-> req[r].type])
    /\ req' = [req EXCEPT ![r] = respond(@, 200, "none")]
    /\ UNCHANGED <<now, tmdbVars, radioVars, store, searchVars, httpVars, serverVars>>

\* req.user.addToWatchHistory(...) rejected: the outer catch answers 500.
WatchHistoryFailed(r) ==
    /\ req[r].pc = "await_watchHistory"
    /\ req' = [req EXCEPT ![r] = respond(@, 500, "watchHistory")]
    /\ UNCHANGED <<now, tmdbVars, radioVars, store, watchHistory, searchVars, httpVars, serverVars>>

\* The response has been sent; the client may send another request.
RequestDone(r) ==
    /\ req[r].pc = "responded"
    /\ req' = [req EXCEPT ![r] = Idle]
    /\ UNCHANGED <<now, tmdbVars, radioVars, store, watchHistory, searchVars, httpVars, serverVars>>

\* The instants of the content clock: a document written at 0 is still
\* current at exactly 24 h and needs an update one millisecond later.
ContentInstants ==
    {0} \cup { k * expiryPeriod + d : k \in 1..MaxPeriods, d \in {0, 1} }

TickContent ==
    /\ \E t \in ContentInstants : t > now /\ now' = t
    /\ UNCHANGED <<tmdbVars, radioVars, contentVars, searchVars, httpVars, serverVars>>

InitContent ==
    /\ store = {}
    /\ watchHistory = <<>>
    /\ req = [r \in Clients |-> Idle]

-----------------------------------------------------------------------------
(* GET /api/search, the aggregated search (routes/search.js lines 11-163). *)
(* The handler's `results` object is local to the request and the handler  *)
(* writes no shared state but the TMDB cache, so a request is one step: its *)
(* response is computed from the parameters, from what tmdbService.search  *)
(* yields through getCachedOrFetch, and from the RadioStation collection.  *)

\* An item as the handler builds it.  A field the item does not have is 0
\* (undefined || 0 and 0 || 0 agree; a year of 0 matches no year filter).
Item(id, title, type, rating, year, popularity, listeners) ==
    [id |-> id, title |-> title, type |-> type, rating |-> rating,
     year |-> year, popularity |-> popularity, listeners |-> listeners]

\* transformedItem (lines 44-55) of TMDB results; "person" results exist too.
movie3  == Item(1, "Alien",  "movie",  3, 1979, 10, 0)
movie9  == Item(2, "Brazil", "movie",  9, 1985, 30, 0)
tv5     == Item(3, "Cheers", "tv",     5, 1982, 20, 0)
person  == Item(4, "Dana",   "person", 0, 0,     5, 0)
tv8     == Item(7, "Eureka", "tv",     8, 1985, 15, 0)

\* RadioStation documents matching { $text: query, isActive: true }, as the
\* items of lines 89-98.
jazz == Item(5, "Jazz FM", "radio", 0, 0, 0,  7)
rock == Item(6, "Rock 1",  "radio", 0, 0, 0, 25)

StationSets == { {}, {jazz, rock} }

\* localeCompare on the titles above: their alphabetical order.
titleOrder ==
    <<"Alien", "Brazil", "Cheers", "Dana", "Eureka", "Jazz FM", "Rock 1">>
titleRank(t) == CHOOSE i \in 1..Len(titleOrder) : titleOrder[i] = t

\* What TMDB holds for the query, in TMDB's order.  /search/multi answers
\* page p with its p-th slice and with the size of the whole as total_results.
tmdbIndex == <<movie3, movie9, tv5, person, tv8>>

searchMulti(page) ==
    LET first == (page - 1) * TmdbPageSize + 1
        last  == IF page * TmdbPageSize < Len(tmdbIndex)
                 THEN page * TmdbPageSize ELSE Len(tmdbIndex)
    IN [results |-> SubSeq(tmdbIndex, first, last),
        total_results |-> Len(tmdbIndex)]

\* cacheKey of tmdbService.search: `search_${query}_${page}_${includeAdult}`
SearchKey(query, page) == <<"search", query, page, FALSE>>

SearchTypes == {"all", "movie", "tv", "radio"}
SortKeys    == {"popularity", "rating", "year", "title"}
Years       == {0, 1985}          \* 0: no year parameter
Queries     == {"a", "ab"}        \* req.query.q

\* JavaScript's a || b on numbers.
Or(a, b) == IF a # 0 THEN a ELSE b

\* A mutant: the comparator with its operands exchanged (ascending order).
sortFunctionAscending(a, b, sortBy) ==
    CASE sortBy = "rating" -> Or(a.rating, 0) - Or(b.rating, 0)
      [] sortBy = "year"   -> Or(a.year, 0) - Or(b.year, 0)
      [] sortBy = "title"  -> titleRank(b.title) - titleRank(a.title)
      [] OTHER -> Or(a.popularity, Or(a.listeners, 0)) -
                  Or(b.popularity, Or(b.listeners, 0))

\* sortFunction (lines 111-123): negative when a sorts before b.
sortFunction(a, b, sortBy) ==
    CASE sortBy = "rating" -> Or(b.rating, 0) - Or(a.rating, 0)
      [] sortBy = "year"   -> Or(b.year, 0) - Or(a.year, 0)
      [] sortBy = "title"  -> titleRank(a.title) - titleRank(b.title)
      [] OTHER -> Or(b.popularity, Or(b.listeners, 0)) -
                  Or(a.popularity, Or(a.listeners, 0))

\* Array.prototype.sort with a comparator: a stable sort.
RECURSIVE insertSorted(_, _, _)
insertSorted(sorted, x, sortBy) ==
    IF sorted = <<>> THEN <<x>>
    ELSE IF sortFunction(Head(sorted), x, sortBy) <= 0
         THEN <<Head(sorted)>> \o insertSorted(Tail(sorted), x, sortBy)
         ELSE <<x>> \o sorted

RECURSIVE sortWith(_, _)
sortWith(seq, sortBy) ==
    IF seq = <<>> THEN <<>>
    ELSE insertSorted(sortWith(SubSeq(seq, 1, Len(seq) - 1), sortBy),
                      seq[Len(seq)], sortBy)

\* A set of stations in descending order of listeners: .sort({ listeners: -1 })
RECURSIVE byListeners(_)
byListeners(S) ==
    IF S = {} THEN <<>>
    ELSE LET top == CHOOSE x \in S : \A y \in S : y.listeners <= x.listeners
         IN <<top>> \o byListeners(S \ {top})

\* RadioStation.find(radioQuery).limit(limit).skip((page - 1) * limit)
\*     .sort({ listeners: -1 })
radioFind(S, page, limit) ==
    LET all == byListeners(S) IN
    SubSeq(all, (page - 1) * limit + 1,
           IF page * limit < Len(all) THEN page * limit ELSE Len(all))

\* The lists of lines 57-61: movie results when movies are asked for, tv
\* results when tv is asked for; anything else is dropped.
moviesOf(results, type) ==
    SelectSeq(results,
              LAMBDA it : it.type = "movie" /\ type \in {"all", "movie"})
tvOf(results, type) ==
    SelectSeq(results,
              LAMBDA it : it.type = "tv" /\ type \in {"all", "tv"})

\* Lines 105-108.
yearFilter(seq, year) ==
    IF year = 0 THEN seq ELSE SelectSeq(seq, LAMBDA it : it.year = year)

NoResponse == [status |-> 0, results |-> <<>>,
               breakdown |-> [movies |-> 0, tv |-> 0, radio |-> 0, total |-> 0],
               pagination |-> [currentPage |-> 0, limit |-> 0,
                               hasMore |-> FALSE]]

NoSearch ==
    [pc |-> "idle", type |-> "all", page |-> 0, limit |-> 0, year |-> 0,
     sortBy |-> "popularity", tmdbFailed |-> FALSE, radioFailed |-> FALSE,
     movies |-> <<>>, tv |-> <<>>, radio |-> <<>>, total |-> 0,
     response |-> NoResponse]

\* Lines 104-157: year filter, the sorts, the merge and res.json.
searchRespond(q) ==
    LET movies == sortWith(yearFilter(q.movies, q.year), q.sortBy)
        tv     == sortWith(yearFilter(q.tv, q.year), q.sortBy)
        allResults ==
            CASE q.type = "all"   -> sortWith(movies \o tv \o q.radio, q.sortBy)
              [] q.type = "movie" -> movies
              [] q.type = "tv"    -> tv
              [] q.type = "radio" -> q.radio
              [] OTHER            -> <<>>
    IN [q EXCEPT
          !.pc = "responded", !.movies = movies, !.tv = tv,
          !.response =
             [status |-> 200, results |-> allResults,
              breakdown |-> [movies |-> Len(movies), tv |-> Len(tv),
                             radio |-> Len(q.radio), total |-> q.total],
              pagination |-> [currentPage |-> q.page, limit |-> q.limit,
                              hasMore |-> Len(allResults) = q.limit]]]

\* A response without data: the 400 of lines 23-28, the 500 of line 161.
searchFail(q, status) ==
    [q EXCEPT !.pc = "responded",
              !.response = [NoResponse EXCEPT !.status = status]]

\* GET /api/search arrives: lines 13-35 and the branch conditions.
SearchRequest(query, type, page, limit, year, sortBy) ==
    /\ search.pc = "idle"
    /\ LET q == [NoSearch EXCEPT !.type = type, !.page = page, !.limit = limit,
                                 !.year = year, !.sortBy = sortBy]
       IN search' =
            IF Len(query) < 2 THEN searchFail(q, 400)
            ELSE IF type \in {"all", "movie", "tv"}
                 THEN [q EXCEPT !.pc = "await_tmdb"]
                 ELSE [q EXCEPT !.pc = "await_radio"]
    /\ UNCHANGED <<now, tmdbVars, radioVars, contentVars, stations, httpVars, serverVars>>

\* The TMDB branch, lines 39-70.  tmdbService.search goes through
\* getCachedOrFetch under the key of (query, page): a fresh entry is served;
\* otherwise TMDB is asked, its answer is cached (fetchOk) or its failure
\* falls back to the entry if there is one, and is thrown if there is none.
\* The inner catch swallows what is thrown.
TmdbSearchReturns(fetchOk) ==
    /\ search.pc = "await_tmdb"
    /\ LET key    == SearchKey("ab", search.page)
           cached == tmdbCache[key]
           hit    == isFresh(cached, now)
           failed == ~hit /\ ~fetchOk /\ cached = NoEntry
           data   == IF hit \/ ~fetchOk THEN cached.data
                     ELSE searchMulti(search.page)
           q      == IF failed THEN [search EXCEPT !.tmdbFailed = TRUE]
                     ELSE [search EXCEPT
                             !.movies = moviesOf(data.results, search.type),
                             !.tv = tvOf(data.results, search.type),
                             !.total = search.total + data.total_results]
       IN /\ tmdbCache' =
               IF ~hit /\ fetchOk
               THEN [tmdbCache EXCEPT
                       ![key] = CacheEntry(searchMulti(search.page), now)]
               ELSE tmdbCache
          /\ search' = IF search.type = "all"
                       THEN [q EXCEPT !.pc = "await_radio"]
                       ELSE searchRespond(q)
    /\ UNCHANGED <<now, tmdbCall, radioVars, contentVars, stations, httpVars, serverVars>>

\* The radio branch, lines 73-102, answered by the database: find and
\* countDocuments.
RadioFindReturns ==
    /\ search.pc = "await_radio"
    /\ search' = searchRespond(
                   [search EXCEPT
                      !.radio = radioFind(stations, search.page, search.limit),
                      !.total = search.total + Cardinality(stations)])
    /\ UNCHANGED <<now, tmdbVars, radioVars, contentVars, stations, httpVars, serverVars>>

\* The radio branch when the database rejects find or countDocuments: the
\* branch has no catch of its own, the outer catch (lines 159-162) answers.
RadioFindRejected ==
    /\ search.pc = "await_radio"
    /\ search' = searchFail([search EXCEPT !.radioFailed = TRUE], 500)
    /\ UNCHANGED <<now, tmdbVars, radioVars, contentVars, stations, httpVars, serverVars>>

SearchDone ==
    /\ search.pc = "responded"
    /\ search' = NoSearch
    /\ UNCHANGED <<now, tmdbVars, radioVars, contentVars, stations, httpVars, serverVars>>

\* GET /api/search/suggestions (lines 166-225).  One search-route request is
\* followed at a time, so the handler shares the request record: its pc
\* values carry the prefix "suggest_".

radioSuggestionLimit == 5

\* Array.prototype.slice(0, n)
sliceTo(seq, n) == SubSeq(seq, 1, IF n < Len(seq) THEN n ELSE Len(seq))

\* The suggestion built from a TMDB result (lines 182-189) or from a station
\* (lines 201-208).
suggestionOf(item) ==
    [id |-> item.id, title |-> item.title, type |-> item.type,
     year |-> item.year]

suggestionsOf(seq) == [i \in 1..Len(seq) |-> suggestionOf(seq[i])]

\* The answer of both the short-query return (lines 169-174) and the catch
\* (lines 218-224): { success: true, data: [] }.
suggestRespond(q, data) ==
    [q EXCEPT !.pc = "suggest_responded",
              !.response = [NoResponse EXCEPT !.status = 200,
                                              !.results = data]]

SuggestRequest(query, limit) ==
    /\ search.pc = "idle"
    /\ LET q == [NoSearch EXCEPT !.page = 1, !.limit = limit]
       IN search' = IF Len(query) < 2 THEN suggestRespond(q, <<>>)
                    ELSE [q EXCEPT !.pc = "suggest_await_tmdb"]
    /\ UNCHANGED <<now, tmdbVars, radioVars, contentVars, stations, httpVars, serverVars>>

\* tmdbService.search(query, 1) returns or throws (lines 178-189); what is
\* thrown is caught at line 218.
TmdbSuggestReturns(fetchOk) ==
    /\ search.pc = "suggest_await_tmdb"
    /\ LET key    == SearchKey("ab", 1)
           cached == tmdbCache[key]
           hit    == isFresh(cached, now)
           failed == ~hit /\ ~fetchOk /\ cached = NoEntry
           data   == IF hit \/ ~fetchOk THEN cached.data ELSE searchMulti(1)
       IN /\ tmdbCache' =
               IF ~hit /\ fetchOk
               THEN [tmdbCache EXCEPT ![key] = CacheEntry(searchMulti(1), now)]
               ELSE tmdbCache
          /\ search' =
               IF failed
               THEN suggestRespond([search EXCEPT !.tmdbFailed = TRUE], <<>>)
               ELSE [search EXCEPT
                       !.pc = "suggest_await_radio",
                       !.movies = suggestionsOf(
                                     sliceTo(data.results, search.limit))]
    /\ UNCHANGED <<now, tmdbCall, radioVars, contentVars, stations, httpVars, serverVars>>

\* RadioStation.find(...).limit(5).sort({ listeners: -1 }) answers: lines
\* 192-216.
RadioSuggestReturns ==
    /\ search.pc = "suggest_await_radio"
    /\ LET radioResults ==
             suggestionsOf(sliceTo(byListeners(stations), radioSuggestionLimit))
       IN search' = suggestRespond(
                      [search EXCEPT !.radio = radioResults],
                      sliceTo(search.movies \o radioResults, search.limit))
    /\ UNCHANGED <<now, tmdbVars, radioVars, contentVars, stations, httpVars, serverVars>>

\* ... or rejects: caught at line 218.
RadioSuggestRejected ==
    /\ search.pc = "suggest_await_radio"
    /\ search' = suggestRespond([search EXCEPT !.radioFailed = TRUE], <<>>)
    /\ UNCHANGED <<now, tmdbVars, radioVars, contentVars, stations, httpVars, serverVars>>

SuggestDone ==
    /\ search.pc = "suggest_responded"
    /\ search' = NoSearch
    /\ UNCHANGED <<now, tmdbVars, radioVars, contentVars, stations, httpVars, serverVars>>

SearchInstants == {0, cacheTimeout - 1, cacheTimeout}

TickSearch ==
    /\ \E t \in SearchInstants : t > now /\ now' = t
    /\ UNCHANGED <<tmdbVars, radioVars, contentVars, searchVars, httpVars, serverVars>>

InitSearch ==
    /\ stations = {}
    /\ search = NoSearch

InitTmdb ==
    /\ tmdbCache = [k \in CacheKeys |-> NoEntry]
    /\ tmdbCall = [c \in Callers |-> NoCall]

\* The adapter after `served` calls at time 0 that all failed upstream (each
\* passed checkRateLimit and cached nothing).
InitRadio(served) ==
    /\ radioCache = [k \in RadioKeys |-> NoEntry]
    /\ rateLimiter = [requests |-> served, lastReset |-> 0]
    /\ radioCall = [c \in Callers |-> NoCall]
    /\ radioLast = [k \in RadioKeys |-> "none"]
    /\ radioCalls = 0

-----------------------------------------------------------------------------
(* TMDBService.makeRequest (part_005 lines 398-458).                        *)

\* process.env.TMDB_API_KEY: unset, a legacy v3 key, a v4 read access token.
noKey     == [set |-> FALSE, prefix |-> "",    length |-> 0]
legacyKey == [set |-> TRUE,  prefix |-> "0a1", length |-> 32]
bearerKey == [set |-> TRUE,  prefix |-> "eyJ", length |-> 211]
ApiKeys   == {noKey, legacyKey, bearerKey}

Endpoints == {"/search/multi", "/movie/550"}

\* What axios rejects with: code, message and the status of error.response
\* (0: no response).  The last two are errors of other layers (an adapter, a
\* proxy) whose message happens to speak of a timeout.
AxiosErrors ==
    { [code |-> "ECONNABORTED", message |-> "timeout of 30000ms exceeded",
       status |-> 0],
      [code |-> "ERR_BAD_REQUEST",
       message |-> "Request failed with status code 429", status |-> 429],
      [code |-> "ERR_BAD_REQUEST",
       message |-> "Request failed with status code 404", status |-> 404],
      [code |-> "ERR_BAD_RESPONSE",
       message |-> "Request failed with status code 500", status |-> 500],
      [code |-> "ENOTFOUND",
       message |-> "getaddrinfo ENOTFOUND api.themoviedb.org", status |-> 0],
      [code |-> "ERR_BAD_REQUEST",
       message |-> "429 rate limited, retry after timeout", status |-> 429],
      [code |-> "ERR_BAD_RESPONSE",
       message |-> "502 upstream timeout", status |-> 502] }

\* new Error('TMDB API key not configured'), thrown at line 416.
keyNotConfigured ==
    [code |-> "", message |-> "TMDB API key not configured", status |-> 0]

\* error.message.includes('timeout') on the messages above.
includesTimeout(message) ==
    message \in {"timeout of 30000ms exceeded",
                 "429 rate limited, retry after timeout",
                 "502 upstream timeout"}

\* The catch block, lines 437-457: the Error that makeRequest throws, as its
\* message's fixed part and the part taken from the caught error.
thrownFor(error) ==
    IF error.code = "ECONNABORTED" \/ includesTimeout(error.message)
    THEN <<"TMDB API timeout - please try again later", "">>
    ELSE IF error.status = 429
    THEN <<"TMDB API rate limit exceeded - please try again later", "">>
    ELSE IF error.status >= 400
    THEN <<"TMDB API error", error.message>>
    ELSE <<"TMDB API request failed", error.message>>

\* The authorization the request carries (lines 407-414).
authOf(key) ==
    IF key.prefix = "eyJ" \/ key.length > 50 THEN "bearer" ELSE "api_key"

HttpIdle == [pc |-> "idle"]

\* A mutant: makeRequest without the credential check of lines 407-417.
MakeRequestUnchecked(c, endpoint) ==
    /\ http[c].pc = "idle"
    /\ http' = [http EXCEPT ![c] =
          [pc |-> "await_axios", endpoint |-> endpoint,
           auth |-> authOf(apiKey), calls |-> 1]]
    /\ UNCHANGED <<now, tmdbVars, radioVars, contentVars, searchVars, apiKey, serverVars>>

\* makeRequest up to its await of axios(config); without a key the Error of
\* line 416 is thrown inside the try and goes through the catch block.
\* (calls is history: the outbound HTTP calls this makeRequest has issued.)
MakeRequest(c, endpoint) ==
    /\ http[c].pc = "idle"
    /\ http' = [http EXCEPT ![c] =
          IF apiKey.set
          THEN [pc |-> "await_axios", endpoint |-> endpoint,
                auth |-> authOf(apiKey), calls |-> 1]
          ELSE [pc |-> "thrown", endpoint |-> endpoint, auth |-> "none",
                calls |-> 0, caught |-> keyNotConfigured,
                error |-> thrownFor(keyNotConfigured)]]
    /\ UNCHANGED <<now, tmdbVars, radioVars, contentVars, searchVars, apiKey, serverVars>>

\* axios resolved: return response.data.
AxiosResolved(c, data) ==
    /\ http[c].pc = "await_axios"
    /\ http' = [http EXCEPT ![c] =
          [pc |-> "returned", endpoint |-> http[c].endpoint,
           auth |-> http[c].auth, calls |-> http[c].calls, data |-> data]]
    /\ UNCHANGED <<now, tmdbVars, radioVars, contentVars, searchVars, apiKey, serverVars>>

\* axios rejected: the catch block classifies and throws.
AxiosRejected(c, error) ==
    /\ http[c].pc = "await_axios"
    /\ http' = [http EXCEPT ![c] =
          [pc |-> "thrown", endpoint |-> http[c].endpoint,
           auth |-> http[c].auth, calls |-> http[c].calls,
           caught |-> error, error |-> thrownFor(error)]]
    /\ UNCHANGED <<now, tmdbVars, radioVars, contentVars, searchVars, apiKey, serverVars>>

\* The caller has the outcome.
MakeRequestDone(c) ==
    /\ http[c].pc \in {"returned", "thrown"}
    /\ http' = [http EXCEPT ![c] = HttpIdle]
    /\ UNCHANGED <<now, tmdbVars, radioVars, contentVars, searchVars, apiKey, serverVars>>

-----------------------------------------------------------------------------
(* The dispatch of a request inside the content router (routes/content.js). *)
(* Express keeps the routes in the order of their registration and hands a  *)
(* request to the first one whose method and path pattern match; a handler  *)
(* that answers, or that passes an error to next(err), ends the dispatch.   *)

Route(method, segs, line) == [method |-> method, segs |-> segs, line |-> line]

\* The pattern segments that are route parameters.
RouteParams == {":category", ":collectionId", ":countryCode", ":genre", ":id", ":movieId", ":networkId", ":personId", ":seasonNumber", ":seriesId", ":stationUuid", ":tvId", ":type"}

\* router.get / router.post / router.delete, in registration order (the
\* third field is the line of the registration).
contentRouter ==
    << 
       Route("GET", <<"homepage">>, 13),
       Route("GET", <<"genres", ":type">>, 192),
       Route("GET", <<"discover", ":type">>, 216),
       Route("GET", <<"category", ":category">>, 289),
       Route("GET", <<":type", ":id">>, 406),
       Route("GET", <<"radio", "country", ":countryCode">>, 514),
       Route("GET", <<"radio", "search">>, 541),
       Route("GET", <<"radio", "genre", ":genre">>, 574),
       Route("GET", <<"radio", "popular">>, 601),
       Route("GET", <<"radio", "countries">>, 626),
       Route("GET", <<"radio", "genres">>, 641),
       Route("POST", <<"radio", ":stationUuid", "click">>, 658),
       Route("GET", <<"radio", ":stationUuid", "stream">>, 678),
       Route("GET", <<"radio", ":stationUuid", "details">>, 695),
       Route("GET", <<"radio", "health">>, 716),
       Route("POST", <<"radio", "cache", "clear">>, 740),
       Route("GET", <<"radio", "favicon", ":stationUuid">>, 758),
       Route("GET", <<"tv", ":id", "season", ":seasonNumber">>, 793),
       Route("GET", <<"trending", "people">>, 810),
       Route("GET", <<"trending", "movies">>, 822),
       Route("GET", <<"tv", "airing-today">>, 834),
       Route("GET", <<"person", ":personId">>, 846),
       Route("GET", <<"person", ":personId", "images">>, 858),
       Route("GET", <<"tv", ":seriesId", "episode-groups">>, 870),
       Route("GET", <<"tv", ":seriesId", "recommendations">>, 882),
       Route("GET", <<"movie", ":movieId", "recommendations">>, 895),
       Route("GET", <<"collection", ":collectionId", "translations">>, 908),
       Route("GET", <<"watch-providers", "movie">>, 920),
       Route("GET", <<"watch-providers", "tv">>, 932),
       Route("GET", <<"movie", ":movieId", "watch-providers">>, 944),
       Route("GET", <<"tv", ":tvId", "watch-providers">>, 956),
       Route("GET", <<"genres", "movie">>, 968),
       Route("GET", <<"genres", "tv">>, 977),
       Route("GET", <<"movie", ":movieId", "videos">>, 987),
       Route("GET", <<"tv", ":tvId", "videos">>, 998),
       Route("GET", <<"movie", ":movieId", "similar">>, 1010),
       Route("GET", <<"tv", ":tvId", "similar">>, 1022),
       Route("GET", <<"movie", ":movieId", "alternative-titles">>, 1035),
       Route("GET", <<"tv", ":tvId", "alternative-titles">>, 1047),
       Route("GET", <<"network", ":networkId", "images">>, 1059),
       Route("GET", <<"tmdb", "test-key">>, 1072),
       Route("GET", <<"tmdb", "auth", "validate">>, 1094),
       Route("POST", <<"tmdb", "auth", "request-token">>, 1111),
       Route("POST", <<"tmdb", "auth", "session">>, 1120),
       Route("POST", <<"tmdb", "auth", "guest-session">>, 1138),
       Route("DELETE", <<"tmdb", "auth", "session">>, 1147),
       Route("GET", <<"tmdb", "account">>, 1166) >>

\* path-to-regexp: a pattern matches a path of as many segments whose every
\* segment equals the pattern's, a parameter matching any segment.
pathMatches(segs, path) ==
    /\ Len(segs) = Len(path)
    /\ \A i \in 1..Len(segs) : segs[i] \in RouteParams \/ segs[i] = path[i]

layerMatches(route, method, path) ==
    route.method = method /\ pathMatches(route.segs, path)

\* The requests sent to the router.
GetPaths ==
    { <<"radio", "search">>, <<"radio", "popular">>, <<"radio", "countries">>,
      <<"radio", "genres">>, <<"radio", "health">>, <<"tv", "airing-today">>,
      <<"trending", "people">>, <<"trending", "movies">>,
      <<"watch-providers", "movie">>, <<"watch-providers", "tv">>,
      <<"tmdb", "test-key">>, <<"tmdb", "account">>,
      <<"movie", "550">>, <<"radio", "uuid1">>, <<"homepage">>,
      <<"genres", "movie">>, <<"radio", "country", "US">>,
      <<"radio", "uuid1", "stream">>, <<"tv", "1", "season", "2">>,
      <<"person", "7">>, <<"tmdb", "auth", "validate">>,
      <<"a", "b", "c", "d", "e">> }
PostPaths == { <<"radio", "cache", "clear">>, <<"radio", "uuid1", "click">> }

NoDispatch == [pc |-> "idle"]

\* A request enters the router: the first layer is tried next.
Receive(method, path) ==
    /\ dispatch.pc = "idle"
    /\ dispatch' = [pc |-> "routing", method |-> method, path |-> path, idx |-> 1]
    /\ UNCHANGED <<now, tmdbVars, radioVars, contentVars, searchVars, httpVars, userVars, socketVars>>

\* The layer at idx does not match: next() moves on to the following layer.
LayerSkips ==
    /\ dispatch.pc = "routing"
    /\ dispatch.idx <= Len(contentRouter)
    /\ ~layerMatches(contentRouter[dispatch.idx], dispatch.method, dispatch.path)
    /\ dispatch' = [dispatch EXCEPT !.idx = @ + 1]
    /\ UNCHANGED <<now, tmdbVars, radioVars, contentVars, searchVars, httpVars, userVars, socketVars>>

\* The layer at idx matches: its handler runs and ends the dispatch.
LayerHandles ==
    /\ dispatch.pc = "routing"
    /\ dispatch.idx <= Len(contentRouter)
    /\ layerMatches(contentRouter[dispatch.idx], dispatch.method, dispatch.path)
    /\ dispatch' = [pc |-> "handled", method |-> dispatch.method,
                    path |-> dispatch.path,
                    route |-> contentRouter[dispatch.idx]]
    /\ UNCHANGED <<now, tmdbVars, radioVars, contentVars, searchVars, httpVars, userVars, socketVars>>

\* No layer is left: the request leaves the router unhandled.
NoLayerLeft ==
    /\ dispatch.pc = "routing"
    /\ dispatch.idx > Len(contentRouter)
    /\ dispatch' = [pc |-> "unhandled", method |-> dispatch.method,
                    path |-> dispatch.path]
    /\ UNCHANGED <<now, tmdbVars, radioVars, contentVars, searchVars, httpVars, userVars, socketVars>>

DispatchDone ==
    /\ dispatch.pc \in {"handled", "unhandled"}
    /\ dispatch' = NoDispatch
    /\ UNCHANGED <<now, tmdbVars, radioVars, contentVars, searchVars, httpVars, userVars, socketVars>>


-----------------------------------------------------------------------------
(* The user's lists: userSchema.methods addToWatchHistory, addToFavorites, *)
(* removeFromFavorites, addToWatchlist, removeFromWatchlist (part_007      *)
(* lines 268-314) and the routes that call them with a request body        *)
(* (routes/search.js lines 957-973, 1059-1104, 1148-1193).  Each request   *)
(* loads its own copy of the user with User.findById and saves it.         *)

MaxUserOps == 3

\* item.contentId === contentId and !==: strict, a string never equals a
\* number.
strictEquals(a, b) == a = b

ListNames == {"favorites", "watchlist"}
ListIds   == {"550", "680", "#550"}

\* this.favorites.some(item => item.contentId === contentId)
some(list, contentId) ==
    \E i \in 1..Len(list) : strictEquals(list[i].contentId, contentId)

\* this.favorites.filter(item => item.contentId !== contentId)
filterList(list, contentId) ==
    SelectSeq(list, LAMBDA item : ~strictEquals(item.contentId, contentId))

\* The subdocument pushed for contentData.
listEntry(contentId) == [contentId |-> castString(contentId)]

NoUserReq == [pc |-> "idle"]

userRespond(q, status) == [q EXCEPT !.pc = "responded", !.status = status]

\* POST /favorites or POST /watchlist up to its await of User.findById.
ListPost(r, name, contentId) ==
    /\ userReq[r].pc = "idle"
    /\ userOps < MaxUserOps
    /\ userOps' = userOps + 1
    /\ userReq' = [userReq EXCEPT ![r] =
            [pc |-> "await_findById", op |-> "add", name |-> name,
             contentId |-> contentId, loaded |-> <<>>, version |-> 0,
             status |-> 0]]
    /\ UNCHANGED <<now, tmdbVars, radioVars, contentVars, searchVars, httpVars, socketVars, dispatch, userLists>>

\* DELETE /favorites/:contentId or /watchlist/:contentId up to findById; the
\* id is a route parameter.
ListDelete(r, name, contentId) ==
    /\ userReq[r].pc = "idle"
    /\ userOps < MaxUserOps
    /\ contentId \notin DOMAIN jsonNumberText
    /\ userOps' = userOps + 1
    /\ userReq' = [userReq EXCEPT ![r] =
            [pc |-> "await_findById", op |-> "remove", name |-> name,
             contentId |-> contentId, loaded |-> <<>>, version |-> 0,
             status |-> 0]]
    /\ UNCHANGED <<now, tmdbVars, radioVars, contentVars, searchVars, httpVars, socketVars, dispatch, userLists>>

\* User.findById resolved: the request holds its own copy of the list.  An
\* add of an id the copy already has is answered 400 by the route.
FindByIdReturns(r) ==
    /\ userReq[r].pc = "await_findById"
    /\ userReq[r].op \in {"add", "remove"}
    /\ LET q == [userReq[r] EXCEPT !.loaded = userLists[userReq[r].name],
                                   !.version = userLists.version] IN
         userReq' = [userReq EXCEPT ![r] =
            IF q.op = "add" /\ some(q.loaded, q.contentId)
            THEN userRespond(q, 400)
            ELSE [q EXCEPT !.pc = "await_save"]]
    /\ UNCHANGED <<now, tmdbVars, radioVars, contentVars, searchVars, httpVars, socketVars, dispatch, userLists, userOps>>

\* addToFavorites / addToWatchlist: the copy has no entry with this id (the
\* route has just checked, the method checks again), so the entry is pushed;
\* save() sends the push as $push of the one entry, which the store appends
\* to the list as it is then, and increments __v without comparing it.
AddSaved(r) ==
    /\ userReq[r].pc = "await_save"
    /\ userReq[r].op = "add"
    /\ userLists' = [userLists EXCEPT
            ![userReq[r].name] = @ \o <<listEntry(userReq[r].contentId)>>,
            !.version = @ + 1]
    /\ userReq' = [userReq EXCEPT ![r] = userRespond(@, 200)]
    /\ UNCHANGED <<now, tmdbVars, radioVars, contentVars, searchVars, httpVars, socketVars, dispatch, userOps>>

\* removeFromFavorites / removeFromWatchlist: the filtered copy is assigned
\* to the path; save() sends the whole array with the __v the copy was loaded
\* at and fails with a VersionError (500) when the stored __v has moved on.
RemoveSaved(r) ==
    /\ userReq[r].pc = "await_save"
    /\ userReq[r].op = "remove"
    /\ IF userReq[r].version = userLists.version
       THEN /\ userLists' = [userLists EXCEPT
                    ![userReq[r].name] = filterList(userReq[r].loaded, userReq[r].contentId),
                    !.version = @ + 1]
            /\ userReq' = [userReq EXCEPT ![r] = userRespond(@, 200)]
       ELSE /\ userLists' = userLists
            /\ userReq' = [userReq EXCEPT ![r] = userRespond(@, 500)]
    /\ UNCHANGED <<now, tmdbVars, radioVars, contentVars, searchVars, httpVars, socketVars, dispatch, userOps>>

\* The ids POST /watch-history is sent with, and the histories the user may
\* have when the first request arrives: n entries, "1" the most recent.
WatchIds == {"1", "100", "550", "#1"}
HistoryLengths == {0, 2, 99, 100}
historyOf(n) == [i \in 1..n |-> [contentId |-> ToString(i), contentType |-> "movie"]]

\* POST /watch-history up to its await of User.findById.
HistoryPost(r, contentId) ==
    /\ userReq[r].pc = "idle"
    /\ userOps < MaxUserOps
    /\ userOps' = userOps + 1
    /\ userReq' = [userReq EXCEPT ![r] =
            [pc |-> "await_findById", op |-> "history", name |-> "watchHistory",
             contentId |-> contentId, loaded |-> <<>>, version |-> 0,
             status |-> 0]]
    /\ UNCHANGED <<now, tmdbVars, radioVars, contentVars, searchVars, httpVars, socketVars, dispatch, userLists>>

\* User.findById resolved for POST /watch-history.
HistoryFindByIdReturns(r) ==
    /\ userReq[r].pc = "await_findById"
    /\ userReq[r].op = "history"
    /\ userReq' = [userReq EXCEPT ![r] =
            [@ EXCEPT !.pc = "await_save", !.loaded = watchHistory,
                      !.version = userLists.version]]
    /\ UNCHANGED <<now, tmdbVars, radioVars, contentVars, searchVars, httpVars, socketVars, dispatch, userLists, userOps>>

\* user.addToWatchHistory(...) resolved: the array computed on the loaded
\* copy is saved whole, under the __v the copy was loaded at.
HistorySaved(r) ==
    /\ userReq[r].pc = "await_save"
    /\ userReq[r].op = "history"
    /\ IF userReq[r].version = userLists.version
       THEN /\ watchHistory' = addToWatchHistory(userReq[r].loaded,
                    [contentId |-> userReq[r].contentId, contentType |-> "movie"])
            /\ userLists' = [userLists EXCEPT !.version = @ + 1]
            /\ userReq' = [userReq EXCEPT ![r] = userRespond(@, 200)]
       ELSE /\ UNCHANGED <<watchHistory, userLists>>
            /\ userReq' = [userReq EXCEPT ![r] = userRespond(@, 500)]
    /\ UNCHANGED <<now, tmdbVars, radioVars, store, req, searchVars, httpVars, socketVars, dispatch, userOps>>

UserRequestDone(r) ==
    /\ userReq[r].pc = "responded"
    /\ userReq' = [userReq EXCEPT ![r] = NoUserReq]
    /\ UNCHANGED <<now, tmdbVars, radioVars, contentVars, searchVars, httpVars, socketVars, dispatch, userLists, userOps>>

InitUser ==
    /\ userLists = [favorites |-> <<>>, watchlist |-> <<>>, version |-> 0]
    /\ userReq = [r \in Clients |-> NoUserReq]
    /\ userOps = 0

-----------------------------------------------------------------------------
(* The socket.io handlers of server.js (part_003 lines 185-208).  A socket *)
(* is in the rooms it joined; socket.to(room).emit(...) reaches every      *)
(* socket in the room except the emitting one; a disconnected socket has   *)
(* left all its rooms.                                                     *)

Sockets == {"s1", "s2", "s3"}
Rooms   == {"roomA", "roomB"}
RelayedEvents == {"video-sync", "chat-message"}

NoEvent == [event |-> "none"]

\* socket.to(room).emit(event, ...): the sockets reached.
broadcastTo(socks, from, room) ==
    {t \in Sockets \ {from} : socks[t].connected /\ room \in socks[t].rooms}

emitted(socks, from, event, room) ==
    [event |-> event, from |-> from, room |-> room,
     to |-> broadcastTo(socks, from, room)]

\* io.on('connection', ...)
Connect(s) ==
    /\ ~sockets[s].connected
    /\ sockets' = [sockets EXCEPT ![s] = [connected |-> TRUE, rooms |-> {}]]
    /\ UNCHANGED <<now, tmdbVars, radioVars, contentVars, searchVars, httpVars, dispatch, userVars, lastEvent>>

\* socket.on('join-room'): socket.join(roomId), then 'user-joined' to the
\* others in the room.
JoinRoom(s, room) ==
    /\ sockets[s].connected
    /\ sockets' = [sockets EXCEPT ![s].rooms = @ \cup {room}]
    /\ lastEvent' = emitted(sockets', s, "user-joined", room)
    /\ UNCHANGED <<now, tmdbVars, radioVars, contentVars, searchVars, httpVars, dispatch, userVars>>

\* socket.on('video-sync') and socket.on('chat-message'):
\* socket.to(data.roomId).emit(event, data), whatever rooms the socket is in.
Relay(s, event, room) ==
    /\ sockets[s].connected
    /\ lastEvent' = emitted(sockets, s, event, room)
    /\ UNCHANGED <<now, tmdbVars, radioVars, contentVars, searchVars, httpVars, dispatch, userVars, sockets>>

\* socket.on('disconnect'): socket.io has removed the socket from its rooms.
Disconnect(s) ==
    /\ sockets[s].connected
    /\ sockets' = [sockets EXCEPT ![s] = [connected |-> FALSE, rooms |-> {}]]
    /\ UNCHANGED <<now, tmdbVars, radioVars, contentVars, searchVars, httpVars, dispatch, userVars, lastEvent>>

InitSocket ==
    /\ sockets = [s \in Sockets |-> [connected |-> FALSE, rooms |-> {}]]
    /\ lastEvent = NoEvent

InitServer ==
    /\ dispatch = NoDispatch
    /\ InitUser
    /\ InitSocket

InitHttp(key) ==
    /\ apiKey = key
    /\ http = [c \in Callers |-> HttpIdle]
    /\ InitServer

InitHttpSpec ==
    /\ now = 0
    /\ InitTmdb
    /\ InitRadio(0)
    /\ InitContent
    /\ InitSearch
    /\ \E key \in ApiKeys : InitHttp(key)

NextHttp ==
    \/ \E c \in Callers, endpoint \in Endpoints : MakeRequest(c, endpoint)
    \/ \E c \in Callers, data \in Payloads : AxiosResolved(c, data)
    \/ \E c \in Callers, error \in AxiosErrors : AxiosRejected(c, error)
    \/ \E c \in Callers : MakeRequestDone(c)

SpecHttp == InitHttpSpec /\ [][NextHttp]_vars

InitRouterSpec ==
    /\ now = 0
    /\ InitTmdb
    /\ InitRadio(0)
    /\ InitContent
    /\ InitSearch
    /\ InitHttp(legacyKey)

NextRouter ==
    \/ \E path \in GetPaths : Receive("GET", path)
    \/ \E path \in PostPaths : Receive("POST", path)
    \/ LayerSkips
    \/ LayerHandles
    \/ NoLayerLeft
    \/ DispatchDone

SpecRouter == InitRouterSpec /\ [][NextRouter]_vars

\* One client's requests on the watch history, one after the other.
InitWatchHistorySpec ==
    /\ now = 0
    /\ InitTmdb
    /\ InitRadio(0)
    /\ store = {}
    /\ req = [r \in Clients |-> Idle]
    /\ \E n \in HistoryLengths : watchHistory = historyOf(n)
    /\ InitSearch
    /\ InitHttp(legacyKey)

NextWatchHistory ==
    \/ \E contentId \in WatchIds : HistoryPost("r1", contentId)
    \/ HistoryFindByIdReturns("r1")
    \/ HistorySaved("r1")
    \/ UserRequestDone("r1")

SpecWatchHistory == InitWatchHistorySpec /\ [][NextWatchHistory]_vars

\* Requests of the same user on favorites and watchlist, interleaving at
\* their awaits.
NextUserLists ==
    \/ \E r \in Clients, name \in ListNames, contentId \in ListIds :
            ListPost(r, name, contentId)
    \/ \E r \in Clients, name \in ListNames, contentId \in ListIds :
            ListDelete(r, name, contentId)
    \/ \E r \in Clients : FindByIdReturns(r)
    \/ \E r \in Clients : AddSaved(r)
    \/ \E r \in Clients : RemoveSaved(r)
    \/ \E r \in Clients : UserRequestDone(r)

SpecUserLists == InitRouterSpec /\ [][NextUserLists]_vars

NextSocket ==
    \/ \E s \in Sockets : Connect(s)
    \/ \E s \in Sockets, room \in Rooms : JoinRoom(s, room)
    \/ \E s \in Sockets, event \in RelayedEvents, room \in Rooms :
            Relay(s, event, room)
    \/ \E s \in Sockets : Disconnect(s)

SpecSocket == InitRouterSpec /\ [][NextSocket]_vars

InitTmdbCache ==
    /\ now = 0
    /\ InitTmdb
    /\ InitRadio(0)
    /\ InitContent
    /\ InitSearch
    /\ InitHttp(legacyKey)

NextTmdbCache ==
    \/ \E c \in Callers, key \in CacheKeys : GetCachedOrFetchBegin(c, key)
    \/ \E c \in Callers, data \in Payloads : FetchResolved(c, data)
    \/ \E c \in Callers : FetchRejected(c)
    \/ \E c \in Callers : CallDone(c)
    \/ TickCache

SpecTmdbCache == InitTmdbCache /\ [][NextTmdbCache]_vars

\* The TMDB adapter with its cached and its direct operations.
NextTmdbOps ==
    \/ \E c \in Callers, key \in CacheKeys : GetCachedOrFetchBegin(c, key)
    \/ \E c \in Callers, data \in Payloads : FetchResolved(c, data)
    \/ \E c \in Callers : FetchRejected(c)
    \/ \E c \in Callers, op \in DirectOps : DirectBegin(c, op)
    \/ \E c \in Callers, data \in Payloads : DirectResolved(c, data)
    \/ \E c \in Callers : DirectRejected(c)
    \/ \E c \in Callers : CallDone(c)
    \/ TickCache

SpecTmdbOps == InitTmdbCache /\ [][NextTmdbOps]_vars

InitRadioSpec ==
    /\ now = 0
    /\ InitTmdb
    /\ \E served \in {0, maxRequests - 2} : InitRadio(served)
    /\ InitContent
    /\ InitSearch
    /\ InitHttp(legacyKey)

NextRadio ==
    \/ \E c \in Callers, key \in RadioKeys \ {HealthKey} : RadioBegin(c, key)
    \/ \E c \in Callers, v \in Payloads : RadioResolved(c, v)
    \/ \E c \in Callers : RadioRejected(c)
    \/ \E c \in Callers : RadioDone(c)
    \/ CheckData
    \/ clearCache
    \/ TickRadio

SpecRadio == InitRadioSpec /\ [][NextRadio]_vars

\* The health route, healthCheck() and the cache-clear route.
NextRadioHealth ==
    \/ \E c \in Callers : HealthRequest(c)
    \/ \E c \in Callers, v \in Payloads : HealthUpstreamResolved(c, v)
    \/ \E c \in Callers : HealthUpstreamRejected(c)
    \/ \E c \in Callers : healthCheckBegin(c)
    \/ \E c \in Callers, healthy \in BOOLEAN : healthCheckReturns(c, healthy)
    \/ \E c \in Callers : HealthDone(c)
    \/ CheckData
    \/ clearCache
    \/ TickRadio

SpecRadioHealth == InitRadioSpec /\ [][NextRadioHealth]_vars

InitContentSpec ==
    /\ now = 0
    /\ InitTmdb
    /\ InitRadio(0)
    /\ InitContent
    /\ InitSearch
    /\ InitHttp(legacyKey)

NextContent ==
    \/ \E r \in Clients, type \in ContentTypes, id \in ContentIds, user \in BOOLEAN :
            Request(r, type, id, user)
    \/ \E r \in Clients : FindOneReturns(r)
    \/ \E r \in Clients, details \in TmdbDetails : TmdbResolved(r, details)
    \/ \E r \in Clients : TmdbRejected(r)
    \/ \E r \in Clients, found \in YoutubeResults : YoutubeReturns(r, found)
    \/ \E r \in Clients : Upsert(r)
    \/ \E r \in Clients : SaveReturns(r)
    \/ \E r \in Clients : WatchHistorySaved(r)
    \/ \E r \in Clients : WatchHistoryFailed(r)
    \/ \E r \in Clients : RequestDone(r)
    \/ TickContent

SpecContent == InitContentSpec /\ [][NextContent]_vars

\* GET /:type/:id with every stored document of one kind: the requests ask
\* for movies (or for the rejected type), so the store holds at most the
\* movie document of the id.
MovieTypes == {"movie", "podcast"}

NextContentMovie ==
    \/ \E r \in Clients, type \in MovieTypes, id \in ContentIds, user \in BOOLEAN :
            Request(r, type, id, user)
    \/ \E r \in Clients : FindOneReturns(r)
    \/ \E r \in Clients, details \in TmdbDetails : TmdbResolved(r, details)
    \/ \E r \in Clients : TmdbRejected(r)
    \/ \E r \in Clients, found \in YoutubeResults : YoutubeReturns(r, found)
    \/ \E r \in Clients : Upsert(r)
    \/ \E r \in Clients : SaveReturns(r)
    \/ \E r \in Clients : WatchHistorySaved(r)
    \/ \E r \in Clients : WatchHistoryFailed(r)
    \/ \E r \in Clients : RequestDone(r)
    \/ TickContent

SpecContentMovie == InitContentSpec /\ [][NextContentMovie]_vars

\* GET /:type/:id for radio stations: the requests that take the radio
\* branch, which touches neither the Content store nor the clock.
NextStation ==
    \/ \E r \in Clients, type \in StationTypes, id \in StationIds,
          user \in BOOLEAN : Request(r, type, id, user)
    \/ \E r \in Clients : StationLookupThrows(r)
    \/ \E r \in Clients : RequestDone(r)

SpecStation == InitContentSpec /\ [][NextStation]_vars

InitSearchSpec ==
    /\ now = 0
    /\ tmdbCache = [k \in {SearchKey("ab", p) : p \in 1..MaxPage} |-> NoEntry]
    /\ tmdbCall = [c \in Callers |-> NoCall]
    /\ InitRadio(0)
    /\ InitContent
    /\ stations \in StationSets
    /\ search = NoSearch
    /\ InitHttp(legacyKey)

NextSearch ==
    \/ \E query \in Queries, type \in SearchTypes, page \in 1..MaxPage,
          limit \in 1..MaxLimit, year \in Years, sortBy \in SortKeys :
            SearchRequest(query, type, page, limit, year, sortBy)
    \/ \E fetchOk \in BOOLEAN : TmdbSearchReturns(fetchOk)
    \/ RadioFindReturns
    \/ RadioFindRejected
    \/ SearchDone
    \/ \E query \in Queries, limit \in 1..MaxLimit : SuggestRequest(query, limit)
    \/ \E fetchOk \in BOOLEAN : TmdbSuggestReturns(fetchOk)
    \/ RadioSuggestReturns
    \/ RadioSuggestRejected
    \/ SuggestDone
    \/ TickSearch

SpecSearch == InitSearchSpec /\ [][NextSearch]_vars

-----------------------------------------------------------------------------
(* Claims on TMDBService.getCachedOrFetch, checked under SpecTmdbCache     *)

C4_FreshServedStaleRefetched ==
    [][ \A c \in Callers :
          /\ (tmdbCall[c].pc = "idle" /\ tmdbCall'[c].pc # "idle") =>
                LET e == tmdbCache[tmdbCall'[c].key] IN
                  /\ (e # NoEntry /\ now - e.timestamp < cacheTimeout) =>
                        /\ tmdbCall'[c].pc = "return_cached"
                        /\ tmdbCall'[c].result = e.data
                        /\ tmdbCache' = tmdbCache
                  /\ (e = NoEntry \/ now - e.timestamp >= cacheTimeout) =>
                        tmdbCall'[c].pc = "await_fetch"
          /\ (tmdbCall[c].pc = "await_fetch" /\ tmdbCall'[c].pc = "return_data") =>
                tmdbCache'[tmdbCall[c].key] =
                    [data |-> tmdbCall'[c].result, timestamp |-> now] ]_vars

\* C4 witness: one caller refreshed an expired entry and, after that, another
\* caller was served the refreshed entry from the Map.
C4_Witness ==
    \E c, d \in Callers :
        /\ tmdbCall[d].pc = "return_data"
        /\ tmdbCall[d].cached # NoEntry
        /\ tmdbCall[c].pc = "return_cached"
        /\ tmdbCall[c].key = tmdbCall[d].key
        /\ tmdbCall[c].cached = tmdbCache[tmdbCall[c].key]
        /\ tmdbCall[c].cached.timestamp - tmdbCall[d].cached.timestamp >= cacheTimeout

-----------------------------------------------------------------------------
(* Claims on the radio-directory adapter, checked under SpecRadio          *)

\* C3: when a value was cached for the key before the call (prev), has
\* expired since, and the refreshing directory call fails, the call returns
\* that value: an upstream failure ends in an error only for a key that had
\* no value cached.
C3_RadioStaleFallback ==
    \A c \in Callers :
        (radioCall[c].pc = "throw" /\ radioCall[c].why = "upstream") =>
            radioCall[c].prev = "none"

-----------------------------------------------------------------------------
(* Claims on GET /:type/:id, checked under SpecContent                     *)

\* C1: when a persisted document for (tmdbId, type) exists but needs an
\* update and the TMDB fetch fails, the request succeeds (200) and returns
\* that document (the handler's `content` at that point).
C1_StaleDocumentServedOnFetchFailure ==
    \A r \in Clients :
        (req[r].pc = "responded" /\ req[r].failedAt = "tmdb" /\
         req[r].content # null) => req[r].status = 200

\* C5: the upsert of a resolution that fetched from TMDB leaves the stored
\* document of (tmdbId, type) with a cacheExpiry later than now, whether the
\* document was inserted or an expired one already existed.
C5_PersistRefreshesExpiry ==
    [][ \A r \in Clients :
          (/\ req[r].pc = "await_upsert" /\ req'[r].pc # "await_upsert"
           /\ req'[r].failedAt = "none"
           /\ LET doc == findOne(store, req[r].id, req[r].type) IN
                 doc = null \/ doc.cacheExpiry < now) =>
              \E d \in store' : /\ d.tmdbId = req[r].id
                                /\ d.type = req[r].type
                                /\ d.cacheExpiry > now ]_vars

\* C6: every successful movie/TV resolution raises the stored view counter
\* of its document by exactly one, on the fresh-document path and on the
\* fetch-and-persist path alike.
C6_EveryResolutionCountsOneView ==
    \A r \in Clients :
        (req[r].pc = "responded" /\ req[r].status = 200 /\
         req[r].type \in {"movie", "tv"}) => req[r].counted = 1

\* C7: a failure of addToWatchHistory never fails the request: the response
\* is still the success response with the resolved document.
C7_WatchHistoryFailureIsolated ==
    \A r \in Clients :
        (req[r].pc = "responded" /\ req[r].failedAt = "watchHistory") =>
            req[r].status = 200

-----------------------------------------------------------------------------
(* The aggregated search.                                                   *)

\* C8: search branch isolation.  When either branch of the aggregated search
\* fails (the TMDB search or the radio-station search) the request still
\* succeeds: the failing branch contributes an empty list and the response
\* carries the other branch's results.
C8_SearchBranchIsolation ==
    (search.pc = "responded" /\ (search.tmdbFailed \/ search.radioFailed)) =>
        LET r == search.response IN
        /\ r.status = 200
        /\ search.tmdbFailed =>
             /\ r.breakdown.movies = 0 /\ r.breakdown.tv = 0
             /\ Len(r.results) = Len(search.radio)
        /\ search.radioFailed =>
             /\ r.breakdown.radio = 0
             /\ Len(r.results) = Len(yearFilter(search.movies, search.year)) +
                                 Len(yearFilter(search.tv, search.year))

\* C9: search pagination.  A successful search response holds exactly the
\* items at positions (page-1)*limit+1 .. page*limit of the merged, sorted
\* sequence of all branches' results, so never more than limit items, and
\* hasMore is true exactly when the page holds limit items.  The merged
\* sequence is everything the branches found for the request: the movie and
\* tv lists and every matching station, not only the stations of one page.
C9_SearchPaginationWindow ==
    (search.pc = "responded" /\ search.response.status = 200) =>
        LET r      == search.response
            merged ==
                CASE search.type = "all" ->
                        sortWith(search.movies \o search.tv \o
                                 byListeners(stations), search.sortBy)
                  [] search.type = "movie" -> search.movies
                  [] search.type = "tv"    -> search.tv
                  [] OTHER                 -> byListeners(stations)
            first  == (search.page - 1) * search.limit + 1
            last   == IF search.page * search.limit < Len(merged)
                      THEN search.page * search.limit ELSE Len(merged)
        IN /\ Len(r.results) <= search.limit
           /\ r.results = SubSeq(merged, first, last)
           /\ r.pagination.hasMore = (Len(r.results) = search.limit)

\* C10: search totals consistency.  In every successful search response,
\* whether TMDB's answer was fetched or served from the cache, the reported
\* total equals breakdown.movies + breakdown.tv + breakdown.radio.
C10_SearchTotalIsBreakdownSum ==
    (search.pc = "responded" /\ search.response.status = 200) =>
        LET b == search.response.breakdown IN
        b.total = b.movies + b.tv + b.radio

\* C11: failure versus empty.  A search or search-suggestion request during
\* which TMDB was unavailable (tmdbService.search threw) is never answered as
\* a success with an empty result list.
C11_FailureDistinctFromEmpty ==
    (search.pc \in {"responded", "suggest_responded"} /\ search.tmdbFailed) =>
        ~(search.response.status = 200 /\ search.response.results = <<>>)

-----------------------------------------------------------------------------
(* GET /:type/:id, continued.                                               *)

\* C12: resolution rejection.  A content-details request for a kind outside
\* {movie, tv, radio} is answered 400 by its first step, and no step of that
\* request touches the Content store, the watch history, the TMDB cache or
\* the radio adapter; the request never waits on a store or adapter call.
C12_InvalidKindRejected ==
    [][\A r \in Clients :
         (/\ req'[r] # req[r]
          /\ req'[r].pc # "idle"
          /\ req'[r].type \notin {"movie", "tv", "radio"})
         => /\ req'[r].pc = "responded"
            /\ req'[r].status = 400
            /\ req'[r].failedAt = "validation"
            /\ UNCHANGED <<store, watchHistory, tmdbVars, radioVars>>]_vars

C12_Witness ==
    \E r \in Clients :
        /\ req[r].pc = "responded"
        /\ req[r].type = "podcast"
        /\ req[r].status = 400

\* C13: NotFound classification.  A content-details request for a radio
\* station the directory does not know is answered 404, not 500.
C13_UnknownStationIsNotFound ==
    \A r \in Clients :
        (/\ req[r].pc = "responded"
         /\ req[r].type = "radio"
         /\ req[r].id \notin RadioDirectory) => req[r].status = 404

\* C14: freshness check.  When findOne returns a document of (tmdbId, type)
\* whose cacheExpiry has not passed, the request goes on to serve that
\* document: its next step is the view count on that document, the store is
\* not written by the check, and from there the request only moves on to the
\* watch history and the response, with the same document: no TMDB fetch, no
\* trailer lookup and no upsert.
C14_FreshDocumentServedWithoutFetch ==
    [][\A r \in Clients :
         /\ (req[r].pc = "await_findOne" /\ req'[r] # req[r]) =>
              LET doc == findOne(store, req[r].id, req[r].type) IN
              (doc # null /\ doc.cacheExpiry >= now) =>
                  /\ req'[r].pc = "await_save"
                  /\ req'[r].content._id = doc._id
                  /\ req'[r].content.title = doc.title
                  /\ store' = store
         /\ (req[r].pc \in {"await_save", "await_watchHistory"} /\
             req'[r] # req[r]) =>
                  /\ req'[r].pc \in {"await_watchHistory", "responded"}
                  /\ req'[r].content = req[r].content
                  /\ UNCHANGED tmdbVars]_vars

\* A request answered 200 with a stored document at the instant of its
\* expiry, its view counted.
C14_Witness ==
    \E r \in Clients :
        /\ req[r].pc = "responded"
        /\ req[r].status = 200
        /\ req[r].counted = 1
        /\ req[r].content.cacheExpiry = now

\* C15: best-effort enrichment.  The YouTube trailer lookup is started only
\* for a fetched item with zero trailers (an item with trailers goes straight
\* to the upsert), and whatever the lookup's outcome the request goes on to
\* the upsert; after a failed lookup the item is as it was, trailer list
\* included.
C15_TrailerLookupBestEffort ==
    [][\A r \in Clients :
         /\ (req[r].pc = "await_tmdb" /\ req'[r].pc = "await_youtube") =>
                req'[r].content.trailers = 0
         /\ (req[r].pc = "await_tmdb" /\ req'[r].pc = "await_upsert") =>
                req'[r].content.trailers > 0
         /\ (req[r].pc = "await_youtube" /\ req'[r] # req[r]) =>
                /\ req'[r].pc = "await_upsert"
                /\ req'[r].lookupFailed =>
                       req'[r].content = req[r].content]_vars

\* A request whose trailer lookup failed and which was answered 200 with an
\* item without trailers.
C15_Witness ==
    \E r \in Clients :
        /\ req[r].pc = "responded"
        /\ req[r].status = 200
        /\ req[r].lookupFailed
        /\ req[r].content.trailers = 0

\* C16: radio path.  A content-details request of kind radio never waits on
\* the Content store or the watch history, and it has called clickStation
\* exactly once when it is answered for a station the directory knows (the
\* lookup succeeded) and never for a station the directory does not know.
C16_RadioPathClicksOnce ==
    \A r \in Clients :
        (req[r].pc # "idle" /\ req[r].type = "radio") =>
            /\ req[r].pc \in {"await_station", "responded"}
            /\ store = {} /\ watchHistory = <<>>
            /\ req[r].pc = "responded" =>
                 req[r].clicks = IF req[r].id \in RadioDirectory THEN 1 ELSE 0

-----------------------------------------------------------------------------
(* The TMDB adapter's operations.                                           *)

\* C17: cache population.  Whenever an operation of the TMDB adapter returns
\* a response it has just received from upstream, the adapter's cache holds
\* that response, stored at that instant, so that the same call made right
\* afterwards finds a fresh entry.
C17_SuccessfulResponseIsCached ==
    [][\A c \in Callers :
         (tmdbCall'[c].pc = "return_data" /\ tmdbCall[c].pc # "return_data") =>
             \E k \in DOMAIN tmdbCache' :
                 tmdbCache'[k] = CacheEntry(tmdbCall'[c].result, now)]_vars

\* C18: missing credential.  Without a configured TMDB credential every
\* makeRequest call ends by throwing an error that names the missing key,
\* having issued no outbound HTTP call; the call never waits on axios, so
\* nothing is sent and nothing is tried again.
C18_MissingCredentialFailsWithoutCall ==
    ~apiKey.set =>
        \A c \in Callers :
            http[c].pc # "idle" =>
                /\ http[c].pc = "thrown"
                /\ http[c].calls = 0
                /\ http[c].error[2] = "TMDB API key not configured"

C18_Witness ==
    /\ ~apiKey.set
    /\ \E c \in Callers : http[c].pc = "thrown" /\ http[c].calls = 0

\* C19: error classification.  A failed outbound call is reported in the
\* class of its cause: a timeout as timeout, a 429 response as rate-limited,
\* any other 4xx/5xx response as upstream-error, whatever the message of the
\* caught error says.
C19_ErrorClassifiedByCause ==
    \A c \in Callers :
        (http[c].pc = "thrown" /\ http[c].calls > 0) =>
            LET e == http[c].caught
                class == http[c].error[1]
            IN /\ e.code = "ECONNABORTED" =>
                     class = "TMDB API timeout - please try again later"
               /\ e.status = 429 =>
                     class = "TMDB API rate limit exceeded - please try again later"
               /\ (e.status >= 400 /\ e.status # 429) =>
                     class = "TMDB API error"

\* C20: search sort.  For type 'all' the returned sequence holds exactly the
\* items of the movie, tv and radio lists, and every item is followed by one
\* that does not sort before it: by rating descending (missing = 0), by year
\* descending (missing = 0), by title ascending, or else by popularity
\* descending with listeners standing in for a station's popularity.
C20_SearchResultsSorted ==
    (search.pc = "responded" /\ search.response.status = 200 /\
     search.type = "all") =>
        LET res  == search.response.results
            all  == search.movies \o search.tv \o search.radio
            pop(x) == IF x.popularity # 0 THEN x.popularity ELSE x.listeners
        IN /\ Len(res) = Len(all)
           /\ {res[i] : i \in 1..Len(res)} = {all[i] : i \in 1..Len(all)}
           /\ \A i \in 1..(Len(res) - 1) :
                 CASE search.sortBy = "rating" ->
                          res[i].rating >= res[i + 1].rating
                   [] search.sortBy = "year" ->
                          res[i].year >= res[i + 1].year
                   [] search.sortBy = "title" ->
                          titleRank(res[i].title) <= titleRank(res[i + 1].title)
                   [] OTHER -> pop(res[i]) >= pop(res[i + 1])

\* Movies rated 3 and 9 and a tv show rated 5, sorted by rating: 9, 5, 3.
C20_Witness ==
    /\ search.pc = "responded"
    /\ search.type = "all"
    /\ search.sortBy = "rating"
    /\ search.response.results = <<movie9, tv5, movie3>>

-----------------------------------------------------------------------------
(* The Content store under several kinds and several requests.             *)

\* C21: per-kind persistence key.  With the movie of an id persisted, a
\* resolution of the tv show of the same id that TMDB and the watch history
\* did not fail is answered 200 and leaves the store with a document of each
\* kind for that id.
C21_PersistedPerKind ==
    \A r \in Clients :
        (/\ req[r].pc = "responded"
         /\ req[r].type = "tv"
         /\ req[r].failedAt \notin {"tmdb", "watchHistory"}
         /\ \E d \in store : d.tmdbId = req[r].id /\ d.type = "movie") =>
            /\ req[r].status = 200
            /\ \E d \in store : d.tmdbId = req[r].id /\ d.type = "tv"

\* C22: a read of the radio adapter that finds a fresh cache entry for its
\* key is served from the cache, without an error and without a call to the
\* directory, however many adapter calls the current window has counted.
C22_FreshEntryServedUnderRateLimit ==
    [][\A c \in Callers :
        (/\ radioCall[c].pc = "idle"
         /\ radioCall'[c].pc # "idle"
         /\ cacheGet(radioCache, radioCall'[c].key, now) # NoEntry) =>
            radioCall'[c].pc = "return_cached"]_vars

\* C23: getCachedOrFetch does not coalesce concurrent calls.  Whenever a
\* waiting call's fetch completes, the cache entry of its key becomes the
\* value of that fetch, stamped now, whatever a concurrent call stored there
\* meanwhile, and no other key changes; so after two concurrent calls of a
\* cold key the key's one entry is that of the fetch that completed last.
C23_LastCompletedFetchWins ==
    [][\A c \in Callers :
        (tmdbCall[c].pc = "await_fetch" /\ tmdbCall'[c].pc = "return_data") =>
            /\ tmdbCache'[tmdbCall[c].key] = CacheEntry(tmdbCall'[c].result, now)
            /\ \A k \in CacheKeys \ {tmdbCall[c].key} :
                    tmdbCache'[k] = tmdbCache[k]]_vars

\* Both callers fetched the same cold key with different answers, both have
\* completed, and the entry holds one of the two answers.
C23_Witness ==
    /\ \A c \in Callers : tmdbCall[c].pc = "return_data"
                            /\ tmdbCall[c].cached = NoEntry
    /\ tmdbCall["c1"].key = tmdbCall["c2"].key
    /\ tmdbCall["c1"].result # tmdbCall["c2"].result
    /\ tmdbCache[tmdbCall["c1"].key].data = tmdbCall["c2"].result

\* C24: whatever the interleaving of the resolutions of one (tmdbId, type),
\* the store never holds two Content documents of that tmdbId and type.
C24_OneDocumentPerKey ==
    \A d1, d2 \in store :
        (d1.tmdbId = d2.tmdbId /\ d1.type = d2.type) => d1 = d2

\* Both requests took the fetch path for the same movie and were answered
\* 200, and the one stored document was inserted at this very instant: both
\* had looked for it before either persisted it.
C24_Witness ==
    /\ \A r \in Clients :
          /\ req[r].pc = "responded" /\ req[r].status = 200
          /\ req[r].type = "movie" /\ req[r].id = "550"
          /\ "plain" \in DOMAIN req[r].content
    /\ Cardinality(store) = 1
    /\ \A d \in store : d.cacheExpiry = now + expiryPeriod

-----------------------------------------------------------------------------
(* Claims on the radio health and cache-clear routes (SpecRadioHealth)     *)

\* C25: the key count a health check reports is the number of keys the radio
\* cache holds when it reports: the cacheSize of a successful GET
\* /radio/health and the cacheKeys of healthCheck().
C25_HealthReportsKeysHeld ==
    [][\A c \in Callers :
        /\ (/\ radioCall[c].pc # "health_responded"
            /\ radioCall'[c].pc = "health_responded"
            /\ radioCall'[c].status = 200) =>
                radioCall'[c].cacheSize = cacheKeys(radioCache')
        /\ (/\ radioCall[c].pc # "healthCheck_returned"
            /\ radioCall'[c].pc = "healthCheck_returned") =>
                radioCall'[c].cacheKeys = cacheKeys(radioCache')]_vars

-----------------------------------------------------------------------------
(* Claims on the content router's dispatch, checked under SpecRouter       *)

\* The GET routes with a fixed two-segment path that are registered after
\* '/:type/:id'.
FixedAfterGeneric ==
    { <<"radio", "search">>, <<"radio", "popular">>, <<"radio", "countries">>,
      <<"radio", "genres">>, <<"radio", "health">>, <<"tv", "airing-today">>,
      <<"trending", "people">>, <<"trending", "movies">>,
      <<"watch-providers", "movie">>, <<"watch-providers", "tv">>,
      <<"tmdb", "test-key">>, <<"tmdb", "account">> }

\* C26: a GET request for one of these paths is handled by the route
\* registered with exactly that path, not by the handler of '/:type/:id'.
C26_FixedRoutesReachOwnHandler ==
    (/\ dispatch.pc = "handled"
     /\ dispatch.method = "GET"
     /\ dispatch.path \in FixedAfterGeneric) =>
        /\ dispatch.route.segs = dispatch.path
        /\ dispatch.route.segs # <<":type", ":id">>

-----------------------------------------------------------------------------
(* Claims on concurrent requests for one document (SpecContentMovie)       *)

\* C27: no view increment is lost.  Every incrementViews that completes
\* leaves the stored view counter of its document one higher than it found
\* it, so N concurrent requests served from the fresh document raise it by N.
C27_NoViewIncrementLost ==
    [][\A r \in Clients :
        (req[r].pc = "await_save" /\ req'[r].pc # "await_save") =>
            viewsOf(store', req[r].id, req[r].type) =
                viewsOf(store, req[r].id, req[r].type) + 1]_vars

-----------------------------------------------------------------------------
(* Claims on the user's lists (SpecWatchHistory, SpecUserLists)            *)

\* C28: after any sequence of addToWatchHistory calls the history has at
\* most 100 entries and no two entries with the same contentId; after a call
\* its first entry is the one just added, and a call for a contentId that was
\* present leaves the number of entries unchanged.
C28_WatchHistoryInvariants ==
    /\ Len(watchHistory) <= 100
    /\ \A i, j \in 1..Len(watchHistory) :
            watchHistory[i].contentId = watchHistory[j].contentId => i = j
    /\ \A r \in Clients :
        (/\ userReq[r].pc = "responded"
         /\ userReq[r].op = "history"
         /\ userReq[r].status = 200) =>
            /\ watchHistory[1].contentId = castString(userReq[r].contentId)
            /\ (\E i \in 1..Len(userReq[r].loaded) :
                    userReq[r].loaded[i].contentId = castString(userReq[r].contentId))
                => Len(watchHistory) = Len(userReq[r].loaded)

\* C29: favorites and watchlist hold at most one entry per contentId, after
\* any adds and removes, also when two requests of the same user add the same
\* contentId concurrently, each on its own loaded copy of the user.
C29_OneEntryPerContentId ==
    \A name \in ListNames :
        \A i, j \in 1..Len(userLists[name]) :
            userLists[name][i].contentId = userLists[name][j].contentId => i = j

-----------------------------------------------------------------------------
(* Claims on the socket.io relay, checked under SpecSocket                 *)

\* C30: a 'video-sync' or 'chat-message' event naming room R reaches only
\* sockets that are in R, never its sender, and reaches anyone only when the
\* sender itself is in R.
C30_RelayStaysInsideRoom ==
    [][(lastEvent' # lastEvent /\ lastEvent'.event \in RelayedEvents) =>
        /\ \A t \in lastEvent'.to : lastEvent'.room \in sockets[t].rooms
        /\ lastEvent'.from \notin lastEvent'.to
        /\ lastEvent'.to # {} =>
                lastEvent'.room \in sockets[lastEvent'.from].rooms]_vars

====
